---- MODULE Spec2Model ----
(***************************************************************************)
(* A model of the cuprum editor's command protocol: the Buffer and Window  *)
(* operations, the Editor State, the protocol dispatcher                   *)
(* (EditorApiHandler::process), the builtin bridge (send_message and the   *)
(* drain loop), the plugin host (pump loops and handler tasks) and the     *)
(* rope-backed Buffer (BufferContent).                                     *)
(*                                                                         *)
(* Rust indices are 0-based and are kept 0-based here; a TLA+ sequence is  *)
(* 1-based, so line y of a buffer is content[y + 1].  A String is a        *)
(* sequence of one-character strings (the model uses ASCII letters only,   *)
(* for which byte and char offsets agree).                                 *)
(***************************************************************************)
EXTENDS Integers, Sequences, FiniteSets, TLC

(***************************************************************************)
(* Bounds of the model.                                                    *)
(***************************************************************************)
\* the longest line of a drawn initial buffer
MaxLineLen == 2
\* the number of lines of a drawn initial buffer is at most this
MaxLines == 2
\* usize::MAX, scaled down to a width TLC's integers hold
usize_MAX == 255
\* the terminal height of the drawn windows
ViewHeight == 2

(***************************************************************************)
(* Option<T>, UVec2 / IVec2                                                *)
(***************************************************************************)
None == [some |-> FALSE]
Some(v) == [some |-> TRUE, val |-> v]

UVec2(x, y) == [x |-> x, y |-> y]
IVec2(x, y) == [x |-> x, y |-> y]

\* utils::vec2 is not among the sources: UVec2::checked_add(IVec2) adds
\* component-wise and is None when a component leaves the usize range.
checked_add(pos, offset) ==
    LET nx == pos.x + offset.x
        ny == pos.y + offset.y
    IN  IF nx < 0 \/ ny < 0 \/ nx > usize_MAX \/ ny > usize_MAX
        THEN None
        ELSE Some(UVec2(nx, ny))

\* utils::vec2 is not among the sources: the order of two positions, which
\* the specification gives as the lexicographic order on (line, column).
UVec2_lt(a, b) == a.y < b.y \/ (a.y = b.y /\ a.x < b.x)

(***************************************************************************)
(* Vec / String primitives (0-based index i)                               *)
(***************************************************************************)
InsertAt(s, i, e) == SubSeq(s, 1, i) \o <<e>> \o SubSeq(s, i + 1, Len(s))
RemoveAt(s, i) == SubSeq(s, 1, i) \o SubSeq(s, i + 2, Len(s))
ReplaceAt(s, i, e) == [s EXCEPT ![i + 1] = e]

(***************************************************************************)
(* A String is the sequence of its characters, but String::len, insert,    *)
(* remove and split_at count in bytes of the UTF-8 encoding and panic on   *)
(* an offset that is not the start of a character (or the end of the       *)
(* string).  Characters are one byte wide except those of TwoByteChars.    *)
(***************************************************************************)
TwoByteChars == {"U+00E9"}

len_utf8(ch) == IF ch \in TwoByteChars THEN 2 ELSE 1

RECURSIVE String_len(_)
String_len(line) ==
    IF Len(line) = 0 THEN 0 ELSE len_utf8(Head(line)) + String_len(Tail(line))

is_char_boundary(line, x) ==
    \E k \in 0..Len(line) : String_len(SubSeq(line, 1, k)) = x

\* the number of characters before the byte offset x, a character boundary
char_index(line, x) ==
    CHOOSE k \in 0..Len(line) : String_len(SubSeq(line, 1, k)) = x

(***************************************************************************)
(* Buffer (crates/editor/src/buffer/mod.rs).  A buffer is                  *)
(*   [file, content, dirty]; file is "none" (no backing file), "ok" (a     *)
(* backing file whose writes succeed) or "failing" (a backing file whose   *)
(* writes fail).  An operation yields [buf, ret, panic]: the buffer after  *)
(* it, its return value, and whether it panicked (an index out of the     *)
(* bounds of a Vec or String).                                             *)
(***************************************************************************)
Result(buf, ret, panic) == [buf |-> buf, ret |-> ret, panic |-> panic]

mark_dirty(buf) == [buf EXCEPT !.dirty = TRUE]

get_line_count(buf) == Len(buf.content)

get_line_length(buf, y) ==
    IF y < Len(buf.content) THEN Some(Len(buf.content[y + 1])) ELSE None

get_line(buf, y) ==
    IF y < Len(buf.content) THEN Some(buf.content[y + 1]) ELSE None

get_char(buf, x, y) ==
    IF y < Len(buf.content) /\ x < Len(buf.content[y + 1])
    THEN Some(buf.content[y + 1][x + 1])
    ELSE None

get_lines(buf) == buf.content

\* Vec<String>::join("\n")
RECURSIVE JoinNewline(_)
JoinNewline(lines) ==
    IF Len(lines) = 0 THEN <<>>
    ELSE IF Len(lines) = 1 THEN lines[1]
    ELSE lines[1] \o <<"\n">> \o JoinNewline(Tail(lines))

get_content(buf) == JoinNewline(buf.content)

\* save() clearing the dirty flag before the write is attempted, so that a
\* failing write leaves the buffer marked clean
Buffer_save_clears(buf) ==
    IF buf.file = "none" THEN Result(buf, "Ok", FALSE)
    ELSE IF buf.file = "failing" THEN Result([buf EXCEPT !.dirty = FALSE], "Err", FALSE)
    ELSE Result([buf EXCEPT !.dirty = FALSE], "Ok", FALSE)

Buffer_save(buf) ==
    IF buf.file = "none" THEN Result(buf, "Ok", FALSE)
    ELSE IF buf.file = "failing" THEN Result(buf, "Err", FALSE)
    ELSE Result([buf EXCEPT !.dirty = FALSE], "Ok", FALSE)

insert_char(buf, x, y, ch) ==
    LET b == mark_dirty(buf) IN
    IF y < Len(b.content)
    THEN IF ~is_char_boundary(b.content[y + 1], x)
         THEN Result(b, None, TRUE)
         ELSE Result([b EXCEPT !.content[y + 1] =
                         InsertAt(@, char_index(@, x), ch)], None, FALSE)
    ELSE Result(b, None, FALSE)

Buffer_remove_char(buf, x, y) ==
    LET b == mark_dirty(buf) IN
    IF y < Len(b.content) /\ x < String_len(b.content[y + 1])
    THEN IF ~is_char_boundary(b.content[y + 1], x)
         THEN Result(b, None, TRUE)
         ELSE LET k == char_index(b.content[y + 1], x) IN
              Result([b EXCEPT !.content[y + 1] = RemoveAt(@, k)],
                     Some(b.content[y + 1][k + 1]), FALSE)
    ELSE Result(b, None, FALSE)

insert_line(buf, y, line) ==
    LET b == mark_dirty(buf) IN
    IF y > Len(b.content)
    THEN Result(b, None, TRUE)
    ELSE Result([b EXCEPT !.content = InsertAt(@, y, line)], None, FALSE)

replace_line(buf, y, line) ==
    IF y < Len(buf.content)
    THEN Result([mark_dirty(buf) EXCEPT !.content[y + 1] = line],
                Some(buf.content[y + 1]), FALSE)
    ELSE Result(buf, None, FALSE)

\* remove_line marking the buffer dirty before the range check, the way
\* remove_char does
Buffer_remove_line_marks(buf, y) ==
    IF y < get_line_count(buf)
    THEN Result([mark_dirty(buf) EXCEPT !.content = RemoveAt(@, y)],
                Some(buf.content[y + 1]), FALSE)
    ELSE Result(mark_dirty(buf), None, FALSE)

Buffer_remove_line(buf, y) ==
    IF y < get_line_count(buf)
    THEN Result([mark_dirty(buf) EXCEPT !.content = RemoveAt(@, y)],
                Some(buf.content[y + 1]), FALSE)
    ELSE Result(buf, None, FALSE)

split_line(buf, x, y) ==
    LET b == mark_dirty(buf) IN
    IF y >= Len(b.content) THEN Result(b, None, TRUE)
    ELSE IF ~is_char_boundary(b.content[y + 1], x) THEN Result(b, None, TRUE)
    ELSE LET original == b.content[y + 1]
             k == char_index(original, x)
             p0 == SubSeq(original, 1, k)
             p1 == SubSeq(original, k + 1, Len(original))
         IN  Result([b EXCEPT !.content =
                        InsertAt(ReplaceAt(@, y, p0), y + 1, p1)],
                    None, FALSE)

\* y + 1 is a usize: for y = usize::MAX it wraps to 0 (with overflow checks
\* compiled in, the addition panics instead), and self.content[y] then
\* panics on the index
join_lines(buf, y) ==
    IF (y + 1) % (usize_MAX + 1) < get_line_count(buf)
    THEN IF y + 1 >= get_line_count(buf)
         THEN Result(mark_dirty(buf), None, TRUE)
         ELSE LET combined == buf.content[y + 1] \o buf.content[y + 2]
              IN  Result([mark_dirty(buf) EXCEPT !.content =
                             RemoveAt(ReplaceAt(@, y, combined), y + 1)],
                         None, FALSE)
    ELSE Result(buf, None, FALSE)

\* Buffer::default()
Buffer_default == [file |-> "none", content |-> << <<>> >>, dirty |-> FALSE]

(***************************************************************************)
(* Mode (crates/api/src/lib.rs): Normal | Visual | Insert(bool) | Command  *)
(***************************************************************************)
Mode_Insert(is_append) == IF is_append THEN "Insert(true)" ELSE "Insert(false)"
Modes == {"Normal", "Visual", Mode_Insert(FALSE), Mode_Insert(TRUE), "Command"}
IsInsert(mode) == mode \in {Mode_Insert(FALSE), Mode_Insert(TRUE)}

(***************************************************************************)
(* Window (crates/editor/src/window/mod.rs).  A window is                  *)
(*   [buffer_id, cursor, scroll, size, visual_start].                      *)
(* The Rust Window holds its Buffer and the Mode by shared reference; the  *)
(* operations below take them as the arguments buf and mode.               *)
(***************************************************************************)
\* sync_scroll putting the cursor one line below the viewport when it
\* scrolls down
sync_scroll_short(win) ==
    IF win.cursor.y < win.scroll
    THEN [win EXCEPT !.scroll = win.cursor.y]
    ELSE IF win.cursor.y >= win.scroll + win.size.y
         THEN IF win.size.y > 0
              THEN [win EXCEPT !.scroll = win.cursor.y - win.size.y]
              ELSE [win EXCEPT !.scroll = win.cursor.y]
         ELSE win

sync_scroll(win) ==
    IF win.cursor.y < win.scroll
    THEN [win EXCEPT !.scroll = win.cursor.y]
    ELSE IF win.cursor.y >= win.scroll + win.size.y
         THEN IF win.size.y > 0
              THEN [win EXCEPT !.scroll = win.cursor.y - win.size.y + 1]
              ELSE [win EXCEPT !.scroll = win.cursor.y]
         ELSE win

\* get_cursor_max_x allowing the column after the last character in every
\* mode
get_cursor_max_x_any_mode(win, buf, mode) ==
    LET line_len == get_line_length(buf, win.cursor.y) IN
    IF line_len.some THEN Some(line_len.val) ELSE None

get_cursor_max_x(win, buf, mode) ==
    LET line_len == get_line_length(buf, win.cursor.y) IN
    IF line_len.some
    THEN Some(IF IsInsert(mode) THEN line_len.val
              ELSE IF line_len.val >= 1 THEN line_len.val - 1 ELSE line_len.val)
    ELSE None

get_render_cursor(win, buf, mode) ==
    LET max_x == get_cursor_max_x(win, buf, mode) IN
    IF max_x.some /\ win.cursor.x > max_x.val
    THEN UVec2(max_x.val, win.cursor.y)
    ELSE win.cursor

\* Window::get_visual_start is not among the sources: the selection anchor
\* the window holds.
get_visual_start(win) == win.visual_start

\* the first block of move_by clamping the stored column on a purely
\* vertical move as well
move_by_clamp_always(win, buf, mode, offset) ==
    LET max_x == get_cursor_max_x(win, buf, mode) IN
    IF max_x.some /\ win.cursor.x > max_x.val
    THEN [win EXCEPT !.cursor.x = max_x.val]
    ELSE win

\* the first block of move_by: the stored column is clamped when a
\* horizontal move is asked for
move_by_clamp(win, buf, mode, offset) ==
    LET max_x == get_cursor_max_x(win, buf, mode) IN
    IF max_x.some /\ offset.x # 0 /\ win.cursor.x > max_x.val
    THEN [win EXCEPT !.cursor.x = max_x.val]
    ELSE win

\* move_by committing the position without the check on the line
move_by_unchecked(win, buf, offset) ==
    LET pos == checked_add(win.cursor, offset) IN
    IF pos.some THEN sync_scroll([win EXCEPT !.cursor = pos.val]) ELSE win

\* the second block of move_by: the bounds check on the line and the commit
move_by_commit(win, buf, offset) ==
    LET pos == checked_add(win.cursor, offset) IN
    IF pos.some
    THEN IF pos.val.y >= get_line_count(buf)
         THEN win
         ELSE sync_scroll([win EXCEPT !.cursor = pos.val])
    ELSE win

Window_move_by(win, buf, mode, offset) ==
    move_by_commit(move_by_clamp(win, buf, mode, offset), buf, offset)

move_to_x(win, buf, mode, x) ==
    IF win.cursor.y >= get_line_count(buf) THEN win
    ELSE LET max_x == get_cursor_max_x(win, buf, mode) IN
         sync_scroll(IF max_x.some
                     THEN [win EXCEPT !.cursor.x =
                              IF x > max_x.val THEN max_x.val ELSE x]
                     ELSE win)

move_to_y(win, buf, y) ==
    IF y >= get_line_count(buf) THEN win
    ELSE LET w1 == [win EXCEPT !.cursor.y = y]
             line == get_line(buf, y)
         IN  sync_scroll(IF line.some /\ w1.cursor.x > Len(line.val)
                         THEN [w1 EXCEPT !.cursor.x = Len(line.val)]
                         ELSE w1)

move_to_line_start(win) == sync_scroll([win EXCEPT !.cursor.x = 0])

move_to_line_end(win, buf) ==
    IF win.cursor.y >= get_line_count(buf) THEN win
    ELSE sync_scroll([win EXCEPT !.cursor.x = usize_MAX])

move_to_buffer_start(win) == sync_scroll([win EXCEPT !.cursor = UVec2(0, 0)])

move_to_buffer_end(win, buf) ==
    LET line_count == get_line_count(buf) IN
    sync_scroll(IF line_count > 0
                THEN [win EXCEPT !.cursor =
                         UVec2(Len(buf.content[line_count]), line_count - 1)]
                ELSE win)

\* Window::new: cursor and scroll at the origin; the size comes from the
\* terminal (height rows, the last one kept for the status line).
Window_new(buffer_id, height) ==
    [buffer_id |-> buffer_id, cursor |-> UVec2(0, 0), scroll |-> 0,
     size |-> UVec2(0, height), visual_start |-> UVec2(0, 0)]

(***************************************************************************)
(* EditorState (crates/editor/src/state.rs, managers.rs):                  *)
(*   [buffers, windows, active_window, mode, command_buf]                  *)
(* buffers and windows are the registries: functions from the ids that are *)
(* open to the Buffer / Window.                                            *)
(***************************************************************************)
BufferManager_get_buffer(state, id) ==
    IF id \in DOMAIN state.buffers THEN Some(id) ELSE None

WindowManager_get_window(state, id) ==
    IF id \in DOMAIN state.windows THEN Some(id) ELSE None

\* WindowManager::close_buffer(id: WindowId): the window leaves the registry
WindowManager_close(state, id) ==
    [state EXCEPT !.windows = [w \in (DOMAIN state.windows) \ {id} |-> state.windows[w]]]

get_active_window(state) == WindowManager_get_window(state, state.active_window)

\* the Buffer a Window holds
BufferOf(state, w) == state.buffers[state.windows[w].buffer_id]

\* set_mode storing the Mode without the move to the right that entering
\* Insert(true) makes
set_mode_without_move(state, mode) == [state EXCEPT !.mode = mode]

set_mode(state, mode) ==
    LET active == get_active_window(state)
        moved == IF mode = Mode_Insert(TRUE) /\ active.some
                 THEN [state EXCEPT !.windows[active.val] =
                          Window_move_by(@, BufferOf(state, active.val),
                                         state.mode, IVec2(1, 0))]
                 ELSE state
    IN  [moved EXCEPT !.mode = mode]

(***************************************************************************)
(* Requests and responses (crates/api/src/lib.rs, and the enums define_api *)
(* generates).  Every request is a record with the same fields:            *)
(*   kind      the variant                                                 *)
(*   h         the optional Buffer / Window handle: [some, id]             *)
(*   pos       the UVec2 / IVec2 argument; a lone line y is pos.y and a    *)
(*             lone column x is pos.x                                      *)
(*   str       the char / String argument                                  *)
(*   mode      the Mode argument                                           *)
(*   position  Number | Start | End of a Position argument                 *)
(* and every response a record [kind, n, pos, str]; kind "None" is the     *)
(* absent response.                                                        *)
(***************************************************************************)
NoHandle == [some |-> FALSE, id |-> 0]
Handle(id) == [some |-> TRUE, id |-> id]

Req(kind, h, pos, str, mode, position) ==
    [kind |-> kind, h |-> h, pos |-> pos, str |-> str, mode |-> mode,
     position |-> position]

ChangeMode(mode) == Req("ChangeMode", NoHandle, UVec2(0, 0), <<>>, mode, "Number")
OpenFile == Req("OpenFile", NoHandle, UVec2(0, 0), <<>>, "Normal", "Number")
SaveBuffer(h) == Req("SaveBuffer", h, UVec2(0, 0), <<>>, "Normal", "Number")
GetLineCount(h) == Req("GetLineCount", h, UVec2(0, 0), <<>>, "Normal", "Number")
GetLineLength(h, y) == Req("GetLineLength", h, UVec2(0, y), <<>>, "Normal", "Number")
GetChar(h, pos) == Req("GetChar", h, pos, <<>>, "Normal", "Number")
GetLine(h, y) == Req("GetLine", h, UVec2(0, y), <<>>, "Normal", "Number")
InsertChar(h, pos, ch) == Req("InsertChar", h, pos, <<ch>>, "Normal", "Number")
InsertLine(h, y, line) == Req("InsertLine", h, UVec2(0, y), line, "Normal", "Number")
ReplaceLine(h, y, line) == Req("ReplaceLine", h, UVec2(0, y), line, "Normal", "Number")
RemoveChar(h, pos) == Req("RemoveChar", h, pos, <<>>, "Normal", "Number")
RemoveLine(h, y) == Req("RemoveLine", h, UVec2(0, y), <<>>, "Normal", "Number")
SplitLine(h, pos) == Req("SplitLine", h, pos, <<>>, "Normal", "Number")
JoinLines(h, y) == Req("JoinLines", h, UVec2(0, y), <<>>, "Normal", "Number")
GetPosition(h) == Req("GetCursor", h, UVec2(0, 0), <<>>, "Normal", "Number")
GetVisualStart(h) == Req("GetVisualStart", h, UVec2(0, 0), <<>>, "Normal", "Number")
MoveBy(h, offset) == Req("MoveBy", h, offset, <<>>, "Normal", "Number")
MoveToX(h, position, x) == Req("MoveToX", h, UVec2(x, 0), <<>>, "Normal", position)
MoveToY(h, position, y) == Req("MoveToY", h, UVec2(0, y), <<>>, "Normal", position)

BufferKinds ==
    {"SaveBuffer", "GetLineCount", "GetLineLength", "GetChar", "GetLine",
     "InsertChar", "InsertLine", "ReplaceLine", "RemoveChar", "RemoveLine",
     "SplitLine", "JoinLines"}
WindowKinds == {"GetCursor", "GetVisualStart", "MoveBy", "MoveToX", "MoveToY"}

Resp(kind, n, pos, str) == [kind |-> kind, n |-> n, pos |-> pos, str |-> str]
NoResponse == Resp("None", 0, UVec2(0, 0), <<>>)
Resp_Number(kind, n) == Resp(kind, n, UVec2(0, 0), <<>>)
Resp_Vec2(kind, pos) == Resp(kind, 0, pos, <<>>)
Resp_Str(kind, str) == Resp(kind, 0, UVec2(0, 0), str)

(***************************************************************************)
(* EditorApiHandler::process (src/lib.rs).  Process(state, req) is the     *)
(* whole of one call run without interruption: [state, response, panic].   *)
(* panic is TRUE when the call unwinds (todo!(), or an index out of range  *)
(* inside a Buffer operation); the locks are released by the unwinding and *)
(* what had been written before stays written.                             *)
(***************************************************************************)
Outcome(state, response, panic) ==
    [state |-> state, response |-> response, panic |-> panic]

\* the inner fn get_window: the registry entry of a given handle, the
\* active window for an omitted one
get_window(state, h) ==
    IF h.some THEN WindowManager_get_window(state, h.id)
    ELSE get_active_window(state)

\* get_buffer with an unknown handle falling back to the active window's
\* buffer instead of resolving to nothing
get_buffer_fallback(state, h) ==
    IF h.some /\ BufferManager_get_buffer(state, h.id).some
    THEN Some(h.id)
    ELSE LET active == get_active_window(state) IN
         IF active.some THEN Some(state.windows[active.val].buffer_id) ELSE None

\* the inner fn get_buffer: the registry entry of a given handle, the
\* active window's buffer for an omitted one
get_buffer(state, h) ==
    IF h.some THEN BufferManager_get_buffer(state, h.id)
    ELSE LET active == get_active_window(state) IN
         IF active.some THEN Some(state.windows[active.val].buffer_id) ELSE None

\* the Buffer operation a buffer arm of process calls
BufferArm(buf, req) ==
    CASE req.kind = "SaveBuffer" -> Buffer_save(buf)
      [] req.kind = "GetLineCount" -> Result(buf, Some(get_line_count(buf)), FALSE)
      [] req.kind = "GetLineLength" -> Result(buf, get_line_length(buf, req.pos.y), FALSE)
      [] req.kind = "GetChar" -> Result(buf, get_char(buf, req.pos.x, req.pos.y), FALSE)
      [] req.kind = "GetLine" -> Result(buf, get_line(buf, req.pos.y), FALSE)
      [] req.kind = "InsertChar" -> insert_char(buf, req.pos.x, req.pos.y, req.str[1])
      [] req.kind = "InsertLine" -> insert_line(buf, req.pos.y, req.str)
      [] req.kind = "ReplaceLine" -> replace_line(buf, req.pos.y, req.str)
      [] req.kind = "RemoveChar" -> Buffer_remove_char(buf, req.pos.x, req.pos.y)
      [] req.kind = "RemoveLine" -> Buffer_remove_line(buf, req.pos.y)
      [] req.kind = "SplitLine" -> split_line(buf, req.pos.x, req.pos.y)
      [] req.kind = "JoinLines" -> join_lines(buf, req.pos.y)

\* the response a buffer arm of process builds from what the operation returned
BufferResponse(req, r) ==
    CASE req.kind \in {"SaveBuffer", "InsertChar", "InsertLine", "SplitLine", "JoinLines"}
            -> NoResponse
      [] req.kind \in {"GetLineCount", "GetLineLength"}
            -> IF r.ret.some THEN Resp_Number(req.kind, r.ret.val) ELSE NoResponse
      [] req.kind \in {"GetChar", "RemoveChar"}
            -> IF r.ret.some THEN Resp_Str(req.kind, <<r.ret.val>>) ELSE NoResponse
      [] req.kind \in {"GetLine", "ReplaceLine", "RemoveLine"}
            -> IF r.ret.some THEN Resp_Str(req.kind, r.ret.val) ELSE NoResponse

\* the Window operation a window arm of process calls
WindowArm(win, buf, mode, req) ==
    CASE req.kind \in {"GetCursor", "GetVisualStart"} -> win
      [] req.kind = "MoveBy" -> Window_move_by(win, buf, mode, req.pos)
      [] req.kind = "MoveToX" ->
            IF req.position = "Number" THEN move_to_x(win, buf, mode, req.pos.x)
            ELSE IF req.position = "Start" THEN move_to_line_start(win)
            ELSE move_to_line_end(win, buf)
      [] req.kind = "MoveToY" ->
            IF req.position = "Number" THEN move_to_y(win, buf, req.pos.y)
            ELSE IF req.position = "Start" THEN move_to_buffer_start(win)
            ELSE move_to_buffer_end(win, buf)

WindowResponse(win, buf, mode, req) ==
    CASE req.kind = "GetCursor" -> Resp_Vec2("GetCursor", get_render_cursor(win, buf, mode))
      [] req.kind = "GetVisualStart" -> Resp_Vec2("GetVisualStart", get_visual_start(win))
      [] OTHER -> NoResponse

Process(state, req) ==
    CASE req.kind = "ChangeMode" -> Outcome(set_mode(state, req.mode), NoResponse, FALSE)
      [] req.kind = "OpenFile" -> Outcome(state, NoResponse, TRUE)
      [] req.kind \in BufferKinds ->
            LET b == get_buffer(state, req.h) IN
            IF b.some
            THEN LET r == BufferArm(state.buffers[b.val], req) IN
                 Outcome([state EXCEPT !.buffers[b.val] = r.buf],
                         IF r.panic THEN NoResponse ELSE BufferResponse(req, r),
                         r.panic)
            ELSE Outcome(state, NoResponse, FALSE)
      [] req.kind \in WindowKinds ->
            LET w == get_window(state, req.h) IN
            IF w.some
            THEN LET win == state.windows[w.val]
                     buf == BufferOf(state, w.val)
                 IN  Outcome([state EXCEPT !.windows[w.val] =
                                 WindowArm(win, buf, state.mode, req)],
                             WindowResponse(win, buf, state.mode, req),
                             FALSE)
            ELSE Outcome(state, NoResponse, FALSE)

(***************************************************************************)
(* Builtin::on_action (crates/builtin/src/lib.rs).  An action is a         *)
(* sequence of API calls, each sent after the response to the one before   *)
(* it; what is sent can depend on the responses received (resps).  A       *)
(* wrapper of CuprumApi that expects a typed response returns Err on any   *)
(* other, which ends the action.                                           *)
(***************************************************************************)
BuiltinAction(kind, mode, pos, position) ==
    [kind |-> kind, mode |-> mode, pos |-> pos, position |-> position]

\* the calls of an action, as far as the responses received determine them
on_action_requests(action, resps) ==
    LET Rep(n, e) == [i \in 1..n |-> e]
        got(n) == Len(resps) >= n
    IN
    CASE action.kind = "Save" -> <<SaveBuffer(NoHandle)>>
      [] action.kind = "ChangeMode" -> <<ChangeMode(action.mode)>>
      [] action.kind = "MoveBy" -> <<MoveBy(NoHandle, action.pos)>>
      [] action.kind = "MoveToX" -> <<MoveToX(NoHandle, action.position, action.pos.x)>>
      [] action.kind = "MoveToY" -> <<MoveToY(NoHandle, action.position, action.pos.y)>>
      [] action.kind = "RemoveChar" ->
            <<GetPosition(NoHandle)>> \o
            (IF got(1) THEN <<RemoveChar(NoHandle, resps[1].pos)>> ELSE <<>>)
      [] action.kind = "RemoveLine" ->
            <<GetPosition(NoHandle)>> \o
            (IF got(1) THEN <<RemoveLine(NoHandle, resps[1].pos.y)>> ELSE <<>>)
      [] action.kind = "RemoveSelection" ->
            LET head == <<GetPosition(NoHandle), GetVisualStart(NoHandle)>> IN
            IF ~got(2) THEN head
            ELSE
            LET cursor == resps[1].pos
                visual_start == resps[2].pos
                x == UVec2_lt(cursor, visual_start)
                left == IF x THEN cursor ELSE visual_start
                right == IF x THEN visual_start ELSE cursor
                place(z) ==
                    <<MoveToY(NoHandle, "Number", visual_start.y - z),
                      MoveToX(NoHandle, "Number", visual_start.x),
                      ChangeMode("Normal")>>
            IN
            IF left.y # right.y
            THEN LET z == right.y - left.y - 1
                     upto == head
                             \o Rep(right.x + 1, RemoveChar(NoHandle, UVec2(0, right.y)))
                             \o Rep(z, RemoveLine(NoHandle, left.y + 1))
                             \o <<GetLineLength(NoHandle, left.y)>>
                 IN  IF ~got(Len(upto)) THEN upto
                     ELSE LET line_len == resps[Len(upto)].n IN
                          upto
                          \o Rep(IF line_len > left.x THEN line_len - left.x ELSE 0,
                                 RemoveChar(NoHandle, UVec2(0, left.y)))
                          \o <<JoinLines(NoHandle, left.y)>>
                          \o place(IF x THEN z ELSE 0)
            ELSE head
                 \o Rep(right.x - left.x, RemoveChar(NoHandle, left))
                 \o place(0)
      [] action.kind = "OpenLineBelow" ->
            <<GetPosition(NoHandle)>> \o
            (IF got(1)
             THEN <<InsertLine(NoHandle, resps[1].pos.y + 1, <<>>),
                    MoveBy(NoHandle, IVec2(0, 1)),
                    ChangeMode(Mode_Insert(FALSE))>>
             ELSE <<>>)
      [] action.kind = "OpenLineAbove" ->
            <<GetPosition(NoHandle)>> \o
            (IF got(1)
             THEN <<InsertLine(NoHandle, resps[1].pos.y, <<>>),
                    ChangeMode(Mode_Insert(FALSE))>>
             ELSE <<>>)
      [] action.kind = "InsertLineStart" ->
            <<MoveToX(NoHandle, "Start", 0), ChangeMode(Mode_Insert(FALSE))>>
      [] action.kind = "AppendLineEnd" ->
            <<ChangeMode(Mode_Insert(TRUE)), MoveToX(NoHandle, "End", 0)>>

\* where on_action stands after the responses resps: the next call to
\* send, Ok(()) at its end, or the Err of a wrapper ("mismatched types")
on_action(action, resps) ==
    LET reqs == on_action_requests(action, resps)
        typed == {"GetCursor", "GetVisualStart", "GetLineLength", "RemoveChar",
                  "RemoveLine"}
    IN  IF \E i \in 1..Len(resps) : reqs[i].kind \in typed /\ resps[i].kind # reqs[i].kind
        THEN [tag |-> "Err", req |-> OpenFile]
        ELSE IF Len(resps) < Len(reqs)
             THEN [tag |-> "send", req |-> reqs[Len(resps) + 1]]
             ELSE [tag |-> "Ok", req |-> OpenFile]

\* on_action run to its end with every call dispatched at once: the Editor
\* State it leaves and how it ended ("Ok", "Err", or "panic" of process)
RECURSIVE RunAction(_, _, _)
RunAction(state, action, resps) ==
    LET a == on_action(action, resps) IN
    IF a.tag = "send"
    THEN LET out == Process(state, a.req) IN
         IF out.panic THEN [state |-> out.state, result |-> "panic"]
         ELSE RunAction(out.state, action, Append(resps, out.response))
    ELSE [state |-> state, result |-> a.tag]

(***************************************************************************)
(* Drawn inputs: the files given on the command line.  A file's content is *)
(* what Buffer::open makes of it: the text split at "\n", so at least one  *)
(* line.  The characters of a drawn content are pairwise different (they   *)
(* are taken in order from Alphabet), so that a removed or misplaced       *)
(* character shows.                                                        *)
(***************************************************************************)
Alphabet == <<"a", "b", "c", "d", "e", "f", "g", "h", "i", "j", "k", "l">>

RECURSIVE SumLen(_, _)
SumLen(shape, n) == IF n = 0 THEN 0 ELSE shape[n] + SumLen(shape, n - 1)

\* the content whose line y has shape[y + 1] characters
ShapeContent(shape) ==
    [i \in 1..Len(shape) |->
        [j \in 1..shape[i] |-> Alphabet[SumLen(shape, i - 1) + j]]]

Shapes == UNION {[1..n -> 0..MaxLineLen] : n \in 1..MaxLines}

Buffer_open(content, file) == [file |-> file, content |-> content, dirty |-> FALSE]

\* EditorState::new(files): one Buffer and one Window per file, ids in
\* order from 0; a default Buffer when no file is given
EditorState_new(files, height) ==
    LET bufs == IF Len(files) = 0 THEN <<Buffer_default>> ELSE files IN
    [buffers |-> [id \in 0..(Len(bufs) - 1) |-> bufs[id + 1]],
     windows |-> [id \in 0..(Len(bufs) - 1) |-> Window_new(id, height)],
     active_window |-> 0,
     mode |-> "Normal",
     command_buf |-> <<>>]

(***************************************************************************)
(* State                                                                   *)
(***************************************************************************)
VARIABLES
    state,      \* the Editor State (in SpecRope: the rope-backed Buffer)
    last,       \* what the latest step did: [op, kind, missing, response, unchanged, panic]
                \* (the record each specification keeps is described with it)
    steps,      \* the number of steps taken so far
    bridge,     \* the builtin bridge: queue, tickets, callers, drain loop
    handlers,   \* the EditorApiHandler of each source, and who holds each mutex
    plugins     \* per plugin: child, queues, signals, pump loops, handler task

vars == <<state, last, steps, bridge, handlers, plugins>>

\* a request names a handle that is not in its registry, or omits the
\* handle when there is no active window
MissingHandle(st, req) ==
    \/ /\ req.kind \in BufferKinds
       /\ IF req.h.some THEN req.h.id \notin DOMAIN st.buffers
          ELSE st.active_window \notin DOMAIN st.windows
    \/ /\ req.kind \in WindowKinds
       /\ IF req.h.some THEN req.h.id \notin DOMAIN st.windows
          ELSE st.active_window \notin DOMAIN st.windows

\* the record of a dispatch: the request's kind, whether its handle was
\* missing, the response, whether the Editor State is as before
Dispatched(st, req, out) ==
    [op |-> "Dispatch", kind |-> req.kind, missing |-> MissingHandle(st, req),
     response |-> out.response, unchanged |-> (out.state = st), panic |-> out.panic]

Other(op) ==
    [op |-> op, kind |-> "", missing |-> FALSE, response |-> NoResponse,
     unchanged |-> FALSE, panic |-> FALSE]

(***************************************************************************)
(* The components at rest.                                                 *)
(***************************************************************************)
\* the sources of requests whose handlers share the Editor State
Sources == {"builtin", "plugin"}

\* no request in progress, every mutex free
Handlers_default ==
    [state_mutex |-> "free",
     buffer_mutex |-> [id \in {0} |-> "free"],
     window_mutex |-> [id \in {0} |-> "free"],
     task |-> [h \in Sources |-> [pc |-> "idle", req |-> OpenFile, target |-> None]]]

\* the number of plugins found in the plugin directory
MaxPlugins == 2

Plugins == 1..MaxPlugins

\* Plugin::new and the tasks main and Plugin::run spawn for it: the child
\* running, both queues empty, no signal pending, the request pump at its
\* read, the response pump and the handler task at their awaits.  The
\* fields dispatched, written and failed record what happened.
Plugin_new ==
    [child |-> "running",
     requests |-> <<>>, request_notify |-> FALSE, dispatched |-> <<>>,
     responses |-> <<>>, response_notify |-> FALSE, written |-> <<>>,
     request_task |-> "read_line",
     response_task |-> [pc |-> "notified", batch |-> <<>>],
     handler |-> [pc |-> "notified", batch |-> <<>>],
     run |-> "select",
     failed |-> FALSE]

Plugins_default == [p \in Plugins |-> Plugin_new]

(***************************************************************************)
(* The builtin bridge.  send_message makes a Ticket (its own Notify and    *)
(* its own response cell holding ApiResponse::None), pushes it with the    *)
(* request under the queue lock, signals the queue's Notify and waits on   *)
(* the Ticket's Notify.  A Notify with one waiter is a permit: notify_one  *)
(* sets it, notified().await takes it.  The fields dispatched, result,     *)
(* batch, returned and value of a Ticket record what happened to it.       *)
(***************************************************************************)
\* the number of tasks that call send_message
MaxCallers == 2
\* the number of send_message calls made in a behaviour
MaxCalls == 3

Callers == 1..MaxCallers

\* send_message: let notify = Notify::new(); let state = Mutex::new(ApiResponse::None)
Ticket_new(req) ==
    [req |-> req, cell |-> NoResponse, permit |-> FALSE,
     dispatched |-> FALSE, result |-> NoResponse, batch |-> 0,
     returned |-> FALSE, value |-> NoResponse]

\* BuiltinApiProvider::default, no call in flight, the drain loop at its await;
\* order lists the Tickets whose request process has been called with
Bridge_default ==
    [messages |-> <<>>, notify |-> FALSE, next_index |-> 0, tickets |-> <<>>,
     callers |-> [c \in Callers |-> [pc |-> "idle", ticket |-> 0]],
     drain |-> [pc |-> "notified", batch |-> <<>>, taken |-> 0],
     order |-> <<>>]

\* send_message: messages.push((notify, state, msg)); next_index += 1
push_message(b, c, req) ==
    LET t == b.next_index + 1 IN
    [b EXCEPT !.tickets = Append(@, Ticket_new(req)),
              !.messages = Append(@, t),
              !.next_index = t,
              !.callers[c] = [pc |-> "notify_one", ticket |-> t]]

\* send_message: self.notify.notify_one()
notify_queue(b, c) == [b EXCEPT !.notify = TRUE, !.callers[c].pc = "notified"]

\* send_message: notify.notified().await; Ok(state.lock().await.clone())
read_response(b, c) ==
    LET t == b.callers[c].ticket IN
    [b EXCEPT !.tickets[t].permit = FALSE,
              !.tickets[t].returned = TRUE,
              !.tickets[t].value = b.tickets[t].cell,
              !.callers[c] = [pc |-> "idle", ticket |-> 0]]

\* BuiltinApiProvider::get_messages: clone the queue and clear it
get_messages(b) ==
    [b EXCEPT !.messages = <<>>,
              !.drain = [pc |-> IF b.messages = <<>> THEN "notified" ELSE "process",
                         batch |-> b.messages,
                         taken |-> IF b.messages = <<>> THEN @.taken ELSE @.taken + 1]]

\* the drain loop writing every result into the cell of the first Ticket
write_response_shared(tickets, t, res) == [tickets EXCEPT ![1].cell = res]

\* the drain loop: *response.lock().await = res
write_response(tickets, t, res) == [tickets EXCEPT ![t].cell = res]

\* the drain loop: notify.notify_one() on the Ticket, then the next of the batch
notify_ticket(b) ==
    LET t == Head(b.drain.batch) IN
    [b EXCEPT !.tickets[t].permit = TRUE,
              !.drain.batch = Tail(@),
              !.drain.pc = IF Tail(b.drain.batch) = <<>> THEN "notified" ELSE "process"]

\* the calls made through the bridge: what the builtin actions send for a
\* cursor at (0, 0), and a query
BridgeRequests ==
    {GetPosition(NoHandle), GetLineCount(NoHandle),
     RemoveLine(NoHandle, 0), InsertLine(NoHandle, 1, <<>>)}

SendPush(c, req) ==
    /\ steps < MaxCalls
    /\ bridge.callers[c].pc = "idle"
    /\ bridge' = push_message(bridge, c, req)
    /\ steps' = steps + 1
    /\ UNCHANGED <<state, last, handlers, plugins>>

SendSignal(c) ==
    /\ bridge.callers[c].pc = "notify_one"
    /\ bridge' = notify_queue(bridge, c)
    /\ UNCHANGED <<state, last, steps, handlers, plugins>>

SendReturn(c) ==
    /\ bridge.callers[c].pc = "notified"
    /\ bridge.tickets[bridge.callers[c].ticket].permit
    /\ bridge' = read_response(bridge, c)
    /\ UNCHANGED <<state, last, steps, handlers, plugins>>

\* the drain loop: notify.notified().await
DrainNotified ==
    /\ bridge.drain.pc = "notified"
    /\ bridge.notify
    /\ bridge' = [bridge EXCEPT !.notify = FALSE, !.drain.pc = "get_messages"]
    /\ UNCHANGED <<state, last, steps, handlers, plugins>>

DrainGetMessages ==
    /\ bridge.drain.pc = "get_messages"
    /\ bridge' = get_messages(bridge)
    /\ UNCHANGED <<state, last, steps, handlers, plugins>>

\* the drain loop: handler.process(request).await and the write of the cell;
\* a panic of process unwinds the drain task, which is never restarted
DrainProcess ==
    /\ bridge.drain.pc = "process"
    /\ LET t == Head(bridge.drain.batch)
           out == Process(state, bridge.tickets[t].req)
       IN  /\ state' = out.state
           /\ bridge' =
                IF out.panic
                THEN [bridge EXCEPT !.drain.pc = "panicked",
                                    !.order = Append(@, t)]
                ELSE [bridge EXCEPT
                        !.order = Append(@, t),
                        !.tickets = [write_response(@, t, out.response) EXCEPT
                                        ![t].dispatched = TRUE,
                                        ![t].result = out.response,
                                        ![t].batch = bridge.drain.taken],
                        !.drain.pc = "notify_one"]
    /\ UNCHANGED <<last, steps, handlers, plugins>>

DrainNotifyOne ==
    /\ bridge.drain.pc = "notify_one"
    /\ bridge' = notify_ticket(bridge)
    /\ UNCHANGED <<state, last, steps, handlers, plugins>>

DrainNext == DrainNotified \/ DrainGetMessages \/ DrainProcess \/ DrainNotifyOne

\* the editor is opened on no file or on a file of one line
BridgeInit ==
    /\ state \in {EditorState_new(<<>>, ViewHeight),
                  EditorState_new(<<Buffer_open(ShapeContent(<<1>>), "ok")>>, ViewHeight)}
    /\ last = Other("init")
    /\ steps = 0
    /\ bridge = Bridge_default
    /\ handlers = Handlers_default
    /\ plugins = Plugins_default

BridgeNext ==
    \/ \E c \in Callers, req \in BridgeRequests : SendPush(c, req)
    \/ \E c \in Callers : SendSignal(c)
    \/ \E c \in Callers : SendReturn(c)
    \/ DrainNotified
    \/ DrainGetMessages
    \/ DrainProcess
    \/ DrainNotifyOne

SpecBridge == BridgeInit /\ [][BridgeNext]_vars

\* the tokio scheduler runs every task that can run: the drain task and
\* every caller that has pushed
SpecBridgeFair ==
    /\ BridgeInit /\ [][BridgeNext]_vars
    /\ WF_vars(DrainNext)
    /\ \A c \in Callers : WF_vars(SendSignal(c) \/ SendReturn(c))

(***************************************************************************)
(* The locking of EditorApiHandler::process, for the two sources of        *)
(* requests: the handler of the builtin drain loop and the handler of a    *)
(* plugin.  process locks the Editor State mutex; a buffer or window arm   *)
(* passes the guard by value to get_buffer / get_window, which drops it on *)
(* return; the arm then locks the Buffer's or Window's own mutex.  The     *)
(* ChangeMode arm keeps the guard to its end.  Window::move_by locks the   *)
(* Buffer twice, once to clamp and once to commit.                         *)
(***************************************************************************)
\* the number of requests processed in a behaviour of SpecLock
MaxRequests == 3

\* the requests of SpecLock: on the active window and its buffer, and one
\* that names a buffer outside the registry
LockRequests ==
    {RemoveLine(NoHandle, 1), RemoveChar(NoHandle, UVec2(0, 0)),
     MoveBy(NoHandle, IVec2(0, 1)), MoveBy(NoHandle, IVec2(1, 0)),
     ChangeMode(Mode_Insert(FALSE)), GetLineCount(Handle(1))}

\* a source hands a request to its handler
ProcessCall(h, req) ==
    /\ steps < MaxRequests
    /\ handlers.task[h].pc = "idle"
    /\ handlers' = [handlers EXCEPT !.task[h] =
                       [pc |-> "lock_state", req |-> req, target |-> None]]
    /\ steps' = steps + 1
    /\ UNCHANGED <<state, last, bridge, plugins>>

\* let mut state = self.state.lock().await
ProcessLockState(h) ==
    /\ handlers.task[h].pc = "lock_state"
    /\ handlers.state_mutex = "free"
    /\ handlers' = [handlers EXCEPT !.state_mutex = h, !.task[h].pc = "match"]
    /\ UNCHANGED <<state, last, steps, bridge, plugins>>

\* the ChangeMode arm: set_mode under the Editor State guard, which is
\* dropped when process returns
ProcessChangeMode(h) ==
    /\ handlers.task[h].pc = "match"
    /\ handlers.task[h].req.kind = "ChangeMode"
    /\ \A id \in DOMAIN handlers.window_mutex : handlers.window_mutex[id] = "free"
    /\ \A id \in DOMAIN handlers.buffer_mutex : handlers.buffer_mutex[id] = "free"
    /\ state' = set_mode(state, handlers.task[h].req.mode)
    /\ handlers' = [handlers EXCEPT !.state_mutex = "free", !.task[h].pc = "idle"]
    /\ UNCHANGED <<last, steps, bridge, plugins>>

\* get_buffer / get_window: the handle is resolved and the Editor State
\* guard, moved into the function, is dropped at its return; with no target
\* process returns None
ProcessResolve(h) ==
    LET req == handlers.task[h].req
        target == IF req.kind \in BufferKinds THEN get_buffer(state, req.h)
                  ELSE get_window(state, req.h)
    IN  /\ handlers.task[h].pc = "match"
        /\ req.kind \in BufferKinds \cup WindowKinds
        /\ (req.kind \in BufferKinds /\ ~req.h.some /\ get_active_window(state).some)
              => handlers.window_mutex[get_active_window(state).val] = "free"
        /\ handlers' = [handlers EXCEPT
                           !.state_mutex = "free",
                           !.task[h].target = target,
                           !.task[h].pc = IF target.some THEN "lock_target" ELSE "idle"]
        /\ UNCHANGED <<state, last, steps, bridge, plugins>>

\* buf.lock().await / win.lock().await
ProcessLockTarget(h) ==
    LET req == handlers.task[h].req
        id == handlers.task[h].target.val
    IN  /\ handlers.task[h].pc = "lock_target"
        /\ IF req.kind \in BufferKinds
           THEN /\ handlers.buffer_mutex[id] = "free"
                /\ handlers' = [handlers EXCEPT !.buffer_mutex[id] = h,
                                                !.task[h].pc = "apply"]
           ELSE /\ handlers.window_mutex[id] = "free"
                /\ handlers' = [handlers EXCEPT !.window_mutex[id] = h,
                                                !.task[h].pc = "apply"]
        /\ UNCHANGED <<state, last, steps, bridge, plugins>>

\* a buffer arm: the Buffer operation under the Buffer's guard; a panic
\* unwinds the task and drops the guard
ProcessBufferArm(h) ==
    LET req == handlers.task[h].req
        id == handlers.task[h].target.val
        r == BufferArm(state.buffers[id], req)
    IN  /\ handlers.task[h].pc = "apply"
        /\ req.kind \in BufferKinds
        /\ state' = [state EXCEPT !.buffers[id] = r.buf]
        /\ handlers' = [handlers EXCEPT
                           !.buffer_mutex[id] = "free",
                           !.task[h].pc = IF r.panic THEN "panicked" ELSE "idle"]
        /\ UNCHANGED <<last, steps, bridge, plugins>>

\* a window arm under the Window's guard: the first block of move_by, which
\* locks the Buffer to clamp the column, or another window operation whole
ProcessWindowArm(h) ==
    LET req == handlers.task[h].req
        id == handlers.task[h].target.val
        win == state.windows[id]
        buf == BufferOf(state, id)
    IN  /\ handlers.task[h].pc = "apply"
        /\ req.kind \in WindowKinds
        /\ handlers.buffer_mutex[win.buffer_id] = "free"
        /\ IF req.kind = "MoveBy"
           THEN /\ state' = [state EXCEPT !.windows[id] =
                                move_by_clamp(win, buf, state.mode, req.pos)]
                /\ handlers' = [handlers EXCEPT !.task[h].pc = "commit"]
           ELSE /\ state' = [state EXCEPT !.windows[id] =
                                WindowArm(win, buf, state.mode, req)]
                /\ handlers' = [handlers EXCEPT !.window_mutex[id] = "free",
                                                !.task[h].pc = "idle"]
        /\ UNCHANGED <<last, steps, bridge, plugins>>

\* the second block of move_by, which locks the Buffer again
ProcessMoveByCommit(h) ==
    LET req == handlers.task[h].req
        id == handlers.task[h].target.val
        win == state.windows[id]
    IN  /\ handlers.task[h].pc = "commit"
        /\ handlers.buffer_mutex[win.buffer_id] = "free"
        /\ state' = [state EXCEPT !.windows[id] =
                        move_by_commit(win, BufferOf(state, id), req.pos)]
        /\ handlers' = [handlers EXCEPT !.window_mutex[id] = "free",
                                        !.task[h].pc = "idle"]
        /\ UNCHANGED <<last, steps, bridge, plugins>>

\* the editor is opened on a file of two lines
LockInit ==
    /\ state = EditorState_new(<<Buffer_open(ShapeContent(<<2, 1>>), "ok")>>, ViewHeight)
    /\ last = Other("init")
    /\ steps = 0
    /\ bridge = Bridge_default
    /\ handlers = Handlers_default
    /\ plugins = Plugins_default

LockNext ==
    \/ \E h \in Sources, req \in LockRequests : ProcessCall(h, req)
    \/ \E h \in Sources : ProcessLockState(h)
    \/ \E h \in Sources : ProcessChangeMode(h)
    \/ \E h \in Sources : ProcessResolve(h)
    \/ \E h \in Sources : ProcessLockTarget(h)
    \/ \E h \in Sources : ProcessBufferArm(h)
    \/ \E h \in Sources : ProcessWindowArm(h)
    \/ \E h \in Sources : ProcessMoveByCommit(h)

SpecLock == LockInit /\ [][LockNext]_vars

(***************************************************************************)
(* The plugin host.  Per plugin: a child process, the request pump         *)
(* (Plugin::process_request in a loop), the handler task of main, the      *)
(* response pump (Plugin::process_response in a loop) and Plugin::run,     *)
(* which waits in select! for a pump to end or the child to exit.  A       *)
(* queue element is named by its index in the queue.  The handler holds    *)
(* both queue locks from its wake to the end of its batch; the response    *)
(* pump holds the response queue lock while it writes.                     *)
(***************************************************************************)
\* the number of request lines the children write in a behaviour
MaxPluginRequests == 2

\* what a plugin asks for
PluginRequests == {ChangeMode(Mode_Insert(FALSE)), GetLineCount(NoHandle), OpenFile}

\* CuprumApiRequest { id, kind } / CuprumApiResponse { id, kind }
CuprumApiRequest(id, kind) == [id |-> id, kind |-> kind]
CuprumApiResponse(id, kind) == [id |-> id, kind |-> kind]

Indexes(queue) == [i \in 1..Len(queue) |-> i]

\* the handler task holds requests.lock() and responses.lock()
HandlerHoldsQueues(pl) == pl.handler.pc \in {"process", "notify_one"}

\* process_request: queue.push(request); notify.notify_one()
push_request(pl, kind) ==
    [pl EXCEPT !.requests = Append(@, CuprumApiRequest(Len(pl.requests) + 1, kind)),
               !.dispatched = Append(@, 0),
               !.request_notify = TRUE]

\* the handler task: request_notify.notified().await, both locks, requests.clone()
clone_requests(pl) ==
    [pl EXCEPT !.request_notify = FALSE,
               !.handler = [pc |-> IF pl.requests = <<>> THEN "notify_one" ELSE "process",
                            batch |-> Indexes(pl.requests)]]

\* the handler task: responses.push(CuprumApiResponse { id, kind: response })
push_response(pl, i, response) ==
    [pl EXCEPT !.responses = Append(@, CuprumApiResponse(pl.requests[i].id, response)),
               !.written = Append(@, 0),
               !.dispatched[i] = @ + 1,
               !.handler.batch = Tail(@),
               !.handler.pc = IF Tail(pl.handler.batch) = <<>> THEN "notify_one"
                              ELSE "process"]

\* process_response: notify.notified().await, queue.lock(), queue.clone()
clone_responses(pl) ==
    [pl EXCEPT !.response_notify = FALSE,
               !.response_task = [pc |-> IF pl.responses = <<>> THEN "notified" ELSE "write",
                                  batch |-> Indexes(pl.responses)]]

\* process_response: one line written and flushed, or the write fails and
\* the loop of the response task breaks
write_response_line(pl) ==
    LET i == Head(pl.response_task.batch) IN
    IF pl.child = "running"
    THEN [pl EXCEPT !.written[i] = @ + 1,
                    !.response_task.batch = Tail(@),
                    !.response_task.pc = IF Tail(pl.response_task.batch) = <<>>
                                         THEN "notified" ELSE "write"]
    ELSE [pl EXCEPT !.response_task.pc = "stopped", !.failed = TRUE]

\* a failure of one plugin taking every child down
kill_every_child(pls, p) ==
    [q \in DOMAIN pls |-> [pls[q] EXCEPT !.child = "killed", !.run = "returned"]]

\* Plugin::run: child.kill() of this plugin's child
kill_child(pls, p) == [pls EXCEPT ![p].child = "killed", ![p].run = "returned"]

\* the child closes its stdin and keeps running
ChildCloseStdin(p) ==
    /\ plugins[p].child = "running"
    /\ plugins' = [plugins EXCEPT ![p].child = "closed_stdin", ![p].failed = TRUE]
    /\ UNCHANGED <<state, last, steps, bridge, handlers>>

\* the child exits
ChildExit(p) ==
    /\ plugins[p].child \in {"running", "closed_stdin"}
    /\ plugins' = [plugins EXCEPT ![p].child = "exited", ![p].failed = TRUE]
    /\ UNCHANGED <<state, last, steps, bridge, handlers>>

\* process_request returns Ok: a line is read and parsed, pushed and signalled
ReadRequest(p, kind) ==
    /\ plugins[p].request_task = "read_line"
    /\ plugins[p].child \in {"running", "closed_stdin"}
    /\ steps < MaxPluginRequests
    /\ ~HandlerHoldsQueues(plugins[p])
    /\ plugins' = [plugins EXCEPT ![p] = push_request(@, kind)]
    /\ steps' = steps + 1
    /\ UNCHANGED <<state, last, bridge, handlers>>

\* process_request returns Err: end of stream or an empty line, or a line
\* that is not a request; the loop of the request task breaks
ReadFail(p, why) ==
    /\ plugins[p].request_task = "read_line"
    /\ why = "malformed" => plugins[p].child \in {"running", "closed_stdin"}
    /\ plugins' = [plugins EXCEPT ![p].request_task = "stopped", ![p].failed = TRUE]
    /\ UNCHANGED <<state, last, steps, bridge, handlers>>

HandlerNotified(p) ==
    /\ plugins[p].handler.pc = "notified"
    /\ plugins[p].request_notify
    /\ plugins[p].response_task.pc # "write"
    /\ plugins' = [plugins EXCEPT ![p] = clone_requests(@)]
    /\ UNCHANGED <<state, last, steps, bridge, handlers>>

\* the handler task: handler.process(request.kind) and the push of the
\* pair; a panic of process unwinds the handler task
HandlerProcess(p) ==
    /\ plugins[p].handler.pc = "process"
    /\ LET i == Head(plugins[p].handler.batch)
           out == Process(state, plugins[p].requests[i].kind)
       IN  /\ state' = out.state
           /\ plugins' = IF out.panic
                         THEN [plugins EXCEPT ![p].handler.pc = "panicked"]
                         ELSE [plugins EXCEPT ![p] = push_response(@, i, out.response)]
    /\ UNCHANGED <<last, steps, bridge, handlers>>

\* the handler task: response_notify.notify_one(), the locks dropped
HandlerNotifyOne(p) ==
    /\ plugins[p].handler.pc = "notify_one"
    /\ plugins' = [plugins EXCEPT ![p].response_notify = TRUE,
                                  ![p].handler.pc = "notified"]
    /\ UNCHANGED <<state, last, steps, bridge, handlers>>

ResponseNotified(p) ==
    /\ plugins[p].response_task.pc = "notified"
    /\ plugins[p].response_notify
    /\ ~HandlerHoldsQueues(plugins[p])
    /\ plugins' = [plugins EXCEPT ![p] = clone_responses(@)]
    /\ UNCHANGED <<state, last, steps, bridge, handlers>>

ResponseWrite(p) ==
    /\ plugins[p].response_task.pc = "write"
    /\ plugins' = [plugins EXCEPT ![p] = write_response_line(@)]
    /\ UNCHANGED <<state, last, steps, bridge, handlers>>

\* Plugin::run, select!: a pump task has ended and the child is killed
RunKill(p) ==
    /\ plugins[p].run = "select"
    /\ plugins[p].response_task.pc = "stopped" \/ plugins[p].request_task = "stopped"
    /\ plugins' = kill_child(plugins, p)
    /\ UNCHANGED <<state, last, steps, bridge, handlers>>

\* Plugin::run, select!: child.wait() has returned
RunChildFinished(p) ==
    /\ plugins[p].run = "select"
    /\ plugins[p].child = "exited"
    /\ plugins' = [plugins EXCEPT ![p].run = "returned"]
    /\ UNCHANGED <<state, last, steps, bridge, handlers>>

\* the steps the tokio scheduler takes for plugin p
PluginTasks(p) ==
    \/ HandlerNotified(p) \/ HandlerProcess(p) \/ HandlerNotifyOne(p)
    \/ ResponseNotified(p) \/ ResponseWrite(p)
    \/ RunKill(p) \/ RunChildFinished(p)

\* the editor is opened on no file
PluginsInit ==
    /\ state = EditorState_new(<<>>, ViewHeight)
    /\ last = Other("init")
    /\ steps = 0
    /\ bridge = Bridge_default
    /\ handlers = Handlers_default
    /\ plugins = Plugins_default

PluginsNext ==
    \/ \E p \in Plugins : ChildCloseStdin(p)
    \/ \E p \in Plugins : ChildExit(p)
    \/ \E p \in Plugins, kind \in PluginRequests : ReadRequest(p, kind)
    \/ \E p \in Plugins, why \in {"eof", "malformed"} : ReadFail(p, why)
    \/ \E p \in Plugins : HandlerNotified(p)
    \/ \E p \in Plugins : HandlerProcess(p)
    \/ \E p \in Plugins : HandlerNotifyOne(p)
    \/ \E p \in Plugins : ResponseNotified(p)
    \/ \E p \in Plugins : ResponseWrite(p)
    \/ \E p \in Plugins : RunKill(p)
    \/ \E p \in Plugins : RunChildFinished(p)

SpecPlugins == PluginsInit /\ [][PluginsNext]_vars

\* the tokio scheduler runs every task that can run, and a read from the
\* stdout of a child that is gone returns; what a running child writes, and
\* when, is up to the child
SpecPluginsFair ==
    /\ PluginsInit /\ [][PluginsNext]_vars
    /\ \A p \in Plugins : WF_vars(PluginTasks(p))
    /\ \A p \in Plugins :
          WF_vars(plugins[p].child \in {"exited", "killed"} /\ ReadFail(p, "eof"))

(***************************************************************************)
(* SpecSel: a builtin action run against a window in Visual mode.  The     *)
(* buffer is a drawn file or the two lines "abcdef", "ghijkl"; the cursor  *)
(* and the selection anchor are drawn among the positions of the buffer.   *)
(***************************************************************************)
\* the positions (column, line) on the characters of a content, column 0
\* on an empty line
Positions(content) ==
    {UVec2(x, y - 1) : <<x, y>> \in
        {<<x, y>> \in (0..6) \X (1..Len(content)) :
            x < Len(content[y]) \/ x = 0}}

SelInit ==
    /\ \E content \in {ShapeContent(shape) : shape \in Shapes \cup {<<6, 6>>}} :
       \E cursor \in Positions(content), anchor \in Positions(content) :
          LET new == EditorState_new(<<Buffer_open(content, "ok")>>, ViewHeight) IN
          state = [new EXCEPT !.mode = "Visual",
                              !.windows[0].cursor = cursor,
                              !.windows[0].visual_start = anchor]
    /\ last = Other("init")
    /\ steps = 0
    /\ bridge = Bridge_default
    /\ handlers = Handlers_default
    /\ plugins = Plugins_default

\* EditorApplication::run_action with a builtin action; last keeps the
\* content, the cursor as get_position answers it and the anchor from before
OnAction(action) ==
    /\ steps < 1
    /\ LET run == RunAction(state, action, <<>>)
           win == state.windows[0]
       IN  /\ state' = run.state
           /\ last' = [op |-> "on_action", action |-> action.kind,
                       result |-> run.result,
                       content |-> state.buffers[0].content,
                       cursor |-> get_render_cursor(win, state.buffers[0], state.mode),
                       visual_start |-> get_visual_start(win)]
    /\ steps' = steps + 1
    /\ UNCHANGED <<bridge, handlers, plugins>>

SelNext ==
    \E action \in {BuiltinAction("RemoveSelection", "Normal", UVec2(0, 0), "Number")} :
        OnAction(action)

SpecSel == SelInit /\ [][SelNext]_vars

(***************************************************************************)
(* Spec: the dispatcher run one request at a time against an Editor State  *)
(* opened on at most one file, with handles inside and outside the         *)
(* registries.                                                             *)
(***************************************************************************)
\* handles 0 .. MaxHandle are drawn; the registries hold id 0 only
MaxHandle == 1
\* a behaviour of Spec takes at most this many steps
MaxSteps == 2

Handles == {NoHandle} \cup {Handle(id) : id \in 0..MaxHandle}
Columns == 0..MaxLineLen
Lines == 0..MaxLines
Offsets == {IVec2(dx, dy) : dx \in {-1, 0, 1}, dy \in {-1, 0, 1}}

\* buffers stay within MaxLines lines of MaxLineLen characters: a request
\* that would grow one beyond that is not drawn
Grows(st, req) ==
    LET b == get_buffer(st, req.h) IN
    /\ b.some
    /\ LET buf == st.buffers[b.val] IN
       \/ /\ req.kind \in {"InsertLine", "SplitLine"}
          /\ Len(buf.content) >= MaxLines
       \/ /\ req.kind \in {"InsertChar", "ReplaceLine"}
          /\ req.pos.y < Len(buf.content)
          /\ Len(buf.content[req.pos.y + 1]) >= MaxLineLen
       \/ /\ req.kind = "JoinLines"
          /\ req.pos.y + 1 < Len(buf.content)
          /\ Len(buf.content[req.pos.y + 1]) + Len(buf.content[req.pos.y + 2]) > MaxLineLen

BufferRequests(h) ==
    {SaveBuffer(h), GetLineCount(h)}
    \cup {GetLineLength(h, y) : y \in Lines}
    \cup {GetLine(h, y) : y \in Lines}
    \cup {RemoveLine(h, y) : y \in Lines}
    \cup {JoinLines(h, y) : y \in Lines \cup {usize_MAX}}
    \cup {InsertLine(h, y, <<>>) : y \in Lines}
    \cup {ReplaceLine(h, y, <<>>) : y \in Lines}
    \cup {GetChar(h, UVec2(x, y)) : x \in Columns, y \in Lines}
    \cup {RemoveChar(h, UVec2(x, y)) : x \in Columns, y \in Lines}
    \cup {SplitLine(h, UVec2(x, y)) : x \in Columns, y \in Lines}
    \cup {InsertChar(h, UVec2(x, y), "z") : x \in Columns, y \in Lines}

WindowRequests(h) ==
    {GetPosition(h), GetVisualStart(h)}
    \cup {MoveBy(h, offset) : offset \in Offsets}
    \cup {MoveToX(h, "Number", x) : x \in Columns}
    \cup {MoveToX(h, position, 0) : position \in {"Start", "End"}}
    \cup {MoveToY(h, "Number", y) : y \in Lines}
    \cup {MoveToY(h, position, 0) : position \in {"Start", "End"}}

Requests ==
    {ChangeMode(mode) : mode \in Modes} \cup {OpenFile}
    \cup UNION {BufferRequests(h) \cup WindowRequests(h) : h \in Handles}

\* a file whose one line holds a two-byte character
WideContent == << <<"U+00E9", "a">> >>

Init ==
    /\ \/ state = EditorState_new(<<>>, ViewHeight)
       \/ \E shape \in Shapes, file \in {"ok", "failing"} :
            state = EditorState_new(<<Buffer_open(ShapeContent(shape), file)>>,
                                    ViewHeight)
       \/ state = EditorState_new(<<Buffer_open(WideContent, "ok")>>, ViewHeight)
    /\ last = Other("init")
    /\ steps = 0
    /\ bridge = Bridge_default
    /\ handlers = Handlers_default
    /\ plugins = Plugins_default

\* one call of EditorApiHandler::process
Dispatch(req) ==
    /\ steps < MaxSteps
    /\ ~Grows(state, req)
    /\ LET out == Process(state, req) IN
       /\ state' = out.state
       /\ last' = Dispatched(state, req, out)
       /\ steps' = steps + 1
       /\ UNCHANGED <<bridge, handlers, plugins>>

\* WindowManager::close_buffer
CloseWindow(w) ==
    /\ steps < MaxSteps
    /\ w \in DOMAIN state.windows
    /\ state' = WindowManager_close(state, w)
    /\ last' = Other("CloseWindow")
    /\ steps' = steps + 1
    /\ UNCHANGED <<bridge, handlers, plugins>>

Next ==
    \/ \E req \in Requests : Dispatch(req)
    \/ \E w \in 0..MaxHandle : CloseWindow(w)

Spec == Init /\ [][Next]_vars

(***************************************************************************)
(* The rope-backed Buffer (src/buffer/mod.rs, src/buffer/content.rs).      *)
(* BufferContent holds a ropey Rope, here the sequence of its characters;  *)
(* "\n" is the line break.  Offsets are 0-based character indices.  An     *)
(* operation yields Result(content, ret, panic): ropey panics on an index  *)
(* or a range outside the text, where the text is left as it was.          *)
(***************************************************************************)
\* a behaviour of SpecRope keeps the text within MaxRopeLen characters
MaxRopeLen == 3
\* and makes at most MaxRopeCalls calls
MaxRopeCalls == 3

\* Rope::len_lines: the line breaks of the text, plus one
BufferContent_get_line_count(content) ==
    Cardinality({i \in 1..Len(content) : content[i] = "\n"}) + 1

\* line_to_char taking the offset of the line break that ends the line
\* before, instead of the offset after it
get_line_start_at_break(content, line) ==
    LET breaks == {i \in 1..Len(content) : content[i] = "\n"} IN
    IF line > Cardinality(breaks) + 1 THEN Result(content, 0, TRUE)
    ELSE IF line = 0 THEN Result(content, 0, FALSE)
    ELSE IF line = Cardinality(breaks) + 1 THEN Result(content, Len(content), FALSE)
    ELSE Result(content,
                (CHOOSE i \in breaks : Cardinality({j \in breaks : j <= i}) = line) - 1,
                FALSE)

\* Rope::line_to_char: the offset at which a line starts, the length of the
\* text for the line one past the last, a panic beyond
get_line_start(content, line) ==
    LET breaks == {i \in 1..Len(content) : content[i] = "\n"} IN
    IF line > Cardinality(breaks) + 1 THEN Result(content, 0, TRUE)
    ELSE IF line = 0 THEN Result(content, 0, FALSE)
    ELSE IF line = Cardinality(breaks) + 1 THEN Result(content, Len(content), FALSE)
    ELSE Result(content,
                CHOOSE i \in breaks : Cardinality({j \in breaks : j <= i}) = line,
                FALSE)

vec2_to_index(content, vec2) ==
    LET line_start == get_line_start(content, vec2.y) IN
    Result(content, line_start.ret + vec2.x, line_start.panic)

\* Rope::char_to_line counts the line breaks before the offset (the last
\* line for the offset one past the last character) and panics beyond
index_to_vec2(content, index) ==
    IF index > Len(content) THEN Result(content, UVec2(0, 0), TRUE)
    ELSE LET line == Cardinality({i \in 1..index : content[i] = "\n"})
             line_start == get_line_start(content, line).ret
         IN  Result(content, UVec2(index - line_start, line), FALSE)

\* Rope::line(line).len_chars(): the line with its line break
BufferContent_get_line_length(content, line) ==
    IF line >= BufferContent_get_line_count(content)
    THEN Result(content, None, TRUE)
    ELSE Result(content,
                Some(get_line_start(content, line + 1).ret
                        - get_line_start(content, line).ret),
                FALSE)

\* Buffer::get_all_lines: self.content.get().split('\n')
RECURSIVE Buffer_get_all_lines(_)
Buffer_get_all_lines(content) ==
    IF \A i \in 1..Len(content) : content[i] # "\n" THEN <<content>>
    ELSE LET i == CHOOSE i \in 1..Len(content) :
                      /\ content[i] = "\n"
                      /\ \A j \in 1..(i - 1) : content[j] # "\n"
         IN  <<SubSeq(content, 1, i - 1)>>
             \o Buffer_get_all_lines(SubSeq(content, i + 1, Len(content)))

\* Rope::char(position)
BufferContent_get_char(content, position) ==
    IF position >= Len(content) THEN Result(content, None, TRUE)
    ELSE Result(content, Some(content[position + 1]), FALSE)

\* Rope::line(line).to_string()
BufferContent_get_line(content, line) ==
    IF line >= BufferContent_get_line_count(content)
    THEN Result(content, None, TRUE)
    ELSE Result(content,
                Some(SubSeq(content, get_line_start(content, line).ret + 1,
                            get_line_start(content, line + 1).ret)),
                FALSE)

\* Rope::insert(position, text)
BufferContent_insert(content, position, text) ==
    IF position > Len(content) THEN Result(content, None, TRUE)
    ELSE Result([i \in 1..(Len(content) + Len(text)) |->
                    IF i <= position THEN content[i]
                    ELSE IF i <= position + Len(text) THEN text[i - position]
                    ELSE content[i - Len(text)]],
                None, FALSE)

\* remove with the range given to Rope::remove collapsed to start..start
BufferContent_remove_nothing(content, start, end) ==
    IF start > end \/ end > Len(content) THEN Result(content, None, TRUE)
    ELSE Result(content, Some(SubSeq(content, start + 1, end)), FALSE)

\* Rope::get_slice(start..end) for the text returned, then
\* Rope::remove(start..end)
BufferContent_remove(content, start, end) ==
    IF start > end \/ end > Len(content) THEN Result(content, None, TRUE)
    ELSE Result([i \in 1..(Len(content) - (end - start)) |->
                    IF i <= start THEN content[i] ELSE content[i + (end - start)]],
                Some(SubSeq(content, start + 1, end)), FALSE)

\* Rope::get_char(position) for the character returned, then
\* Rope::remove(position..position): an empty range, which removes nothing
BufferContent_remove_char(content, position) ==
    IF position > Len(content) THEN Result(content, None, TRUE)
    ELSE Result(content,
                IF position < Len(content) THEN Some(content[position + 1]) ELSE None,
                FALSE)

\* a call on the rope-backed Buffer: op is [name, a, b, text].  Buffer
\* hands every edit and query to its BufferContent and touches neither the
\* dirty flag nor the file, save apart.
Buffer_call(buf, op) ==
    LET r == CASE op.name = "insert" -> BufferContent_insert(buf.content, op.a, op.text)
               [] op.name = "insert_char" ->
                     BufferContent_insert(buf.content, op.a, <<op.text[1]>>)
               [] op.name = "remove" -> BufferContent_remove(buf.content, op.a, op.b)
               [] op.name = "remove_char" -> BufferContent_remove_char(buf.content, op.a)
               [] op.name = "get_line_length" ->
                     BufferContent_get_line_length(buf.content, op.a)
               [] op.name = "get_char" -> BufferContent_get_char(buf.content, op.a)
               [] op.name = "get_line" -> BufferContent_get_line(buf.content, op.a)
               [] op.name = "vec2_to_index" -> vec2_to_index(buf.content, UVec2(op.a, op.b))
               [] op.name = "index_to_vec2" -> index_to_vec2(buf.content, op.a)
               [] OTHER -> Result(buf.content, None, FALSE)
    IN  IF op.name = "save" THEN Buffer_save(buf)
        ELSE Result([buf EXCEPT !.content = r.buf], r.ret, r.panic)

(***************************************************************************)
(* SpecRope: calls made one after the other on one rope-backed Buffer,     *)
(* new or opened on a file, with offsets inside the text and up to two     *)
(* past its end.  last keeps, next to the call and what it returned, the   *)
(* text before it (before), the same edits applied to a plain string       *)
(* (ref), whether all calls so far were insert, insert_char or remove with *)
(* offsets in range on a buffer that was new (replay), and the text at the *)
(* open or the last save that succeeded (saved).                           *)
(***************************************************************************)
RopeCalls(content) ==
    LET n == Len(content)
        Op(name, a, b, text) == [name |-> name, a |-> a, b |-> b, text |-> text]
    IN  {Op("insert", a, 0, text) :
            a \in 0..(n + 1), text \in {<<"x">>, <<"\n">>, <<"y", "\n">>}}
        \cup {Op("insert_char", a, 0, <<ch>>) : a \in 0..(n + 1), ch \in {"z", "\n"}}
        \cup {Op("remove", a, b, <<>>) : a \in 0..(n + 1), b \in 0..(n + 1)}
        \cup {Op(name, a, 0, <<>>) :
                name \in {"remove_char", "get_char", "index_to_vec2"}, a \in 0..(n + 2)}
        \cup {Op(name, a, 0, <<>>) :
                name \in {"get_line_length", "get_line"},
                a \in 0..(BufferContent_get_line_count(content) + 1)}
        \cup {Op("vec2_to_index", x, y, <<>>) :
                x \in 0..n, y \in 0..(BufferContent_get_line_count(content) + 1)}
        \cup {Op("save", 0, 0, <<>>)}

\* the edit of a call applied to a plain string: the text is put in at
\* offset a, or the characters from offset a up to offset b are taken out
RefEdit(ref, op) ==
    LET Min(m, n) == IF m < n THEN m ELSE n
        head == SubSeq(ref, 1, Min(op.a, Len(ref)))
    IN  CASE op.name \in {"insert", "insert_char"} ->
                head \o op.text \o SubSeq(ref, Min(op.a, Len(ref)) + 1, Len(ref))
          [] op.name = "remove" ->
                head \o SubSeq(ref, Min(op.b, Len(ref)) + 1, Len(ref))
          [] OTHER -> ref

RopeInit ==
    /\ \E file \in {"none", "ok", "failing"} :
       \E text \in {<<>>, <<"a">>, <<"a", "\n">>, <<"a", "\n", "b">>, <<"\n", "\n">>} :
          /\ file = "none" => text = <<>>
          /\ state = Buffer_open(text, file)
          /\ last = [op |-> "init", a |-> 0, b |-> 0, ret |-> None, panic |-> FALSE,
                     before |-> text, ref |-> text, replay |-> (file = "none"),
                     saved |-> text]
    /\ steps = 0
    /\ bridge = Bridge_default
    /\ handlers = Handlers_default
    /\ plugins = Plugins_default

\* one call on the Buffer; the task that makes a panicking call makes no
\* other
RopeCall(op) ==
    /\ steps < MaxRopeCalls
    /\ ~last.panic
    /\ Len(state.content) + Len(op.text) <= MaxRopeLen
    /\ LET r == Buffer_call(state, op)
           edit == op.name \in {"insert", "insert_char", "remove"}
           inrange == op.a <= Len(state.content)
                      /\ (op.name = "remove" =>
                             op.a <= op.b /\ op.b <= Len(state.content))
       IN  /\ state' = r.buf
           /\ last' = [op |-> op.name, a |-> op.a, b |-> op.b, ret |-> r.ret,
                       panic |-> r.panic, before |-> state.content,
                       ref |-> IF edit /\ inrange THEN RefEdit(last.ref, op) ELSE last.ref,
                       replay |-> last.replay /\ edit /\ inrange,
                       saved |-> IF op.name = "save" /\ r.ret = "Ok"
                                    /\ state.file # "none"
                                 THEN state.content ELSE last.saved]
    /\ steps' = steps + 1
    /\ UNCHANGED <<bridge, handlers, plugins>>

RopeNext == \E op \in RopeCalls(state.content) : RopeCall(op)

SpecRope == RopeInit /\ [][RopeNext]_vars

(***************************************************************************)
(* SpecWin: the cursor movements of one Window over a Buffer that no       *)
(* request edits, in a Mode that stays; the renderer sets the size of the  *)
(* viewport between them.  last keeps the Window as it was before the      *)
(* step (before), whether the step ran sync_scroll as its last statement  *)
(* whatever the arguments (synced), and the request of a move (req).       *)
(***************************************************************************)
\* a behaviour of SpecWin takes at most MaxMoves steps
MaxMoves == 3

WinInit ==
    /\ \E shape \in Shapes \cup {<<2, 0, 1>>}, mode \in Modes, height \in 0..ViewHeight :
          state = [EditorState_new(<<Buffer_open(ShapeContent(shape), "ok")>>, height)
                      EXCEPT !.mode = mode]
    /\ last = [op |-> "init", before |-> Window_new(0, 0), synced |-> FALSE,
               req |-> OpenFile]
    /\ steps = 0
    /\ bridge = Bridge_default
    /\ handlers = Handlers_default
    /\ plugins = Plugins_default

\* MoveBy, MoveToX or MoveToY processed for the active window: move_by,
\* move_to_x, move_to_line_start, move_to_line_end, move_to_y,
\* move_to_buffer_start or move_to_buffer_end
WinMove(req) ==
    /\ steps < MaxMoves
    /\ req.kind \in {"MoveBy", "MoveToX", "MoveToY"}
    /\ state' = Process(state, req).state
    /\ last' = [op |-> "move", before |-> state.windows[0],
                synced |-> \/ req.position = "Start"
                           \/ req.kind = "MoveToY" /\ req.position = "End",
                req |-> req]
    /\ steps' = steps + 1
    /\ UNCHANGED <<bridge, handlers, plugins>>

\* Window::set_size, called by the renderer
WinSetSize(height) ==
    /\ steps < MaxMoves
    /\ state' = [state EXCEPT !.windows[0].size = UVec2(0, height)]
    /\ last' = [op |-> "set_size", before |-> state.windows[0], synced |-> FALSE,
                req |-> OpenFile]
    /\ steps' = steps + 1
    /\ UNCHANGED <<bridge, handlers, plugins>>

\* Window::sync_scroll called on its own
WinSyncScroll ==
    /\ steps < MaxMoves
    /\ state' = [state EXCEPT !.windows[0] = sync_scroll(@)]
    /\ last' = [op |-> "sync_scroll", before |-> state.windows[0], synced |-> TRUE,
                req |-> OpenFile]
    /\ steps' = steps + 1
    /\ UNCHANGED <<bridge, handlers, plugins>>

WinNext ==
    \/ \E req \in WindowRequests(NoHandle) : WinMove(req)
    \/ \E height \in 0..ViewHeight : WinSetSize(height)
    \/ WinSyncScroll

SpecWin == WinInit /\ [][WinNext]_vars

(***************************************************************************)
(* The input loop and the renderer (src/lib.rs, src/ui/render.rs,          *)
(* crates/editor/src/state.rs).  EditorApplication::process hands a key to *)
(* the handler of the current Mode.  In Normal and Visual mode the key's   *)
(* action runs through Builtin::on_action, whose calls the dispatcher      *)
(* serves; in Insert and Command mode the handler works on the Editor      *)
(* State it has locked.  The render task locks the Editor State once per   *)
(* frame.  state is the Editor State; last is                              *)
(* [op, key, panic, before, entered, prev, prev_entered]: which component  *)
(* made the step ("Dispatch" for a step whose writes are all made by       *)
(* EditorApiHandler::process), the key, whether it panicked, the effective *)
(* cursor before the step, whether the step was a ChangeMode(Insert(true)),*)
(* and the last two of these for the step before.  No component closes a   *)
(* window, so there is always an active window.                            *)
(***************************************************************************)
MaxKeys == 3
MaxCommandLen == 1

KeyCode(code, ch) == [code |-> code, ch |-> ch]

KeyCodes ==
    {KeyCode("Char", "z"), KeyCode("Char", "w"), KeyCode("Char", "\n"),
     KeyCode("Backspace", ""), KeyCode("Delete", ""), KeyCode("Esc", "")}

\* EditorApplication::process_insert after event_to_key: the Editor State it
\* leaves and whether it panicked (the writes made before a panic stay)
process_insert(st, key_code, is_append) ==
    LET active == get_active_window(st) IN
    IF ~active.some THEN Outcome(st, NoResponse, FALSE)
    ELSE
    LET w == active.val
        win == st.windows[w]
        b == win.buffer_id
        buf == BufferOf(st, w)
        mode == st.mode
        cursor == get_render_cursor(win, buf, mode)
        put(r, moved) ==
            Outcome([st EXCEPT !.buffers[b] = r.buf,
                                  !.windows[w] = IF r.panic THEN win ELSE moved],
                    NoResponse, r.panic)
    IN
    CASE key_code.code = "Char" /\ key_code.ch = "\n" ->
            LET r == split_line(buf, cursor.x, cursor.y) IN
            put(r, move_to_x(Window_move_by(win, r.buf, mode, IVec2(0, 1)),
                             r.buf, mode, 0))
      [] key_code.code = "Char" /\ key_code.ch # "\n" ->
            LET r == insert_char(buf, cursor.x, cursor.y, key_code.ch) IN
            put(r, Window_move_by(win, r.buf, mode, IVec2(1, 0)))
      [] key_code.code = "Backspace" ->
            LET line_len == IF cursor.x = 0 /\ cursor.y # 0
                            THEN get_line_length(buf, cursor.y - 1)
                            ELSE None
                \* cursor.y - 1 is a usize: for cursor.y = 0 it wraps
                r == IF cursor.x = 0
                     THEN join_lines(buf, (cursor.y - 1) % (usize_MAX + 1))
                     ELSE Buffer_remove_char(buf, cursor.x - 1, cursor.y)
            IN  put(r, IF cursor.x # 0
                       THEN move_to_x(win, r.buf, mode, cursor.x - 1)
                       ELSE IF line_len.some /\ cursor.y # 0
                            THEN move_to_x(Window_move_by(win, r.buf, mode, IVec2(0, -1)),
                                           r.buf, mode, line_len.val)
                            ELSE win)
      [] key_code.code = "Delete" ->
            put(Buffer_remove_char(buf, cursor.x, cursor.y), win)
      [] key_code.code = "Esc" ->
            LET moved == IF is_append
                         THEN Window_move_by(win, buf, mode, IVec2(-1, 0))
                         ELSE win
            IN  Outcome(set_mode([st EXCEPT !.windows[w] = moved], "Normal"),
                        NoResponse, FALSE)

\* EditorState::set_command_to_normal_mode
\* set_command_to_normal_mode without the reset of command_buf
set_command_to_normal_mode_keeps_buf(st) ==
    set_mode(st, "Normal")

set_command_to_normal_mode(st) ==
    set_mode([st EXCEPT !.command_buf = <<>>], "Normal")

\* CommandMap::default: the commands that name an action
CommandMap == {<<"q">>, <<"w">>}

\* CommandMap::get: the action registered under the name, "None" without one
CommandMap_get(name) ==
    CASE name = <<"q">> -> "Quit"
      [] name = <<"w">> -> "Save"
      [] OTHER -> "None"

\* EditorState::process_command: the Editor State it leaves and the command
\* whose action it returns (<<>> for none)
EditorState_process_command(st, key_code) ==
    CASE key_code.code = "Esc" ->
            [state |-> set_command_to_normal_mode(st), command |-> <<>>]
      [] key_code.code = "Backspace" ->
            [state |-> IF Len(st.command_buf) = 0
                       THEN set_command_to_normal_mode(st)
                       ELSE [st EXCEPT !.command_buf =
                                SubSeq(@, 1, Len(@) - 1)],
             command |-> <<>>]
      [] key_code.code = "Char" /\ key_code.ch = "\n" ->
            [state |-> set_command_to_normal_mode(st),
             command |-> IF CommandMap_get(st.command_buf) # "None"
                         THEN st.command_buf ELSE <<>>]
      [] key_code.code = "Char" /\ key_code.ch # "\n" ->
            [state |-> [st EXCEPT !.command_buf = Append(@, key_code.ch)],
             command |-> <<>>]
      [] OTHER -> [state |-> st, command |-> <<>>]

\* EditorApplication::process_command: the key is handled on the locked
\* Editor State, then the action of the command, if any, is run ("w" saves
\* through the dispatcher, "q" only sets is_quit)
process_command(st, key_code) ==
    LET r == EditorState_process_command(st, key_code) IN
    IF r.command = <<"w">>
    THEN RunAction(r.state, BuiltinAction("Save", "Normal", IVec2(0, 0), "Number"), <<>>)
    ELSE [state |-> r.state, result |-> "Ok"]

\* Renderer::render: the size of the terminal is written to the active
\* window before the frame is drawn
render(st, height) ==
    LET active == get_active_window(st) IN
    IF active.some
    THEN [st EXCEPT !.windows[active.val].size = UVec2(0, height)]
    ELSE st

\* the actions the keys of Normal and Visual mode are bound to here
NormalActions ==
    {BuiltinAction("ChangeMode", mode, IVec2(0, 0), "Number") : mode \in Modes}
    \cup {BuiltinAction("MoveBy", "Normal", offset, "Number") :
            offset \in {IVec2(-1, 0), IVec2(1, 0), IVec2(0, -1), IVec2(0, 1)}}
    \cup {BuiltinAction("MoveToX", "Normal", IVec2(0, 0), "End")}

EffectiveCursor(st) ==
    get_render_cursor(st.windows[0], st.buffers[0], st.mode)

InputStep(op, key, panic, entered) ==
    [op |-> op, key |-> key, panic |-> panic,
     before |-> EffectiveCursor(state), entered |-> entered,
     prev |-> last.before, prev_entered |-> last.entered,
     action |-> "None"]

InputInit ==
    /\ \/ state = EditorState_new(<<>>, ViewHeight)
       \/ \E content \in {ShapeContent(shape) : shape \in Shapes} \cup {WideContent} :
          \E cursor \in Positions(content) :
            state = [EditorState_new(<<Buffer_open(content, "ok")>>, ViewHeight)
                        EXCEPT !.windows[0].cursor = cursor]
    /\ last = [op |-> "init", key |-> "", panic |-> FALSE,
               before |-> UVec2(0, 0), entered |-> FALSE,
               prev |-> UVec2(0, 0), prev_entered |-> FALSE,
               action |-> "None"]
    /\ steps = 0
    /\ bridge = Bridge_default
    /\ handlers = Handlers_default
    /\ plugins = Plugins_default

\* process_normal, process_visual: the action of the key runs through
\* Builtin::on_action, every call of it served by the dispatcher
KeyNormal(action) ==
    /\ steps < MaxKeys /\ ~last.panic
    /\ state.mode \in {"Normal", "Visual"}
    /\ LET run == RunAction(state, action, <<>>) IN
       /\ state' = run.state
       /\ last' = InputStep("Dispatch", action.kind, run.result = "panic",
                            action.kind = "ChangeMode" /\ action.mode = Mode_Insert(TRUE))
    /\ steps' = steps + 1
    /\ UNCHANGED <<bridge, handlers, plugins>>

\* process_insert
KeyInsert(key_code) ==
    /\ steps < MaxKeys /\ ~last.panic
    /\ IsInsert(state.mode)
    /\ LET out == process_insert(state, key_code, state.mode = Mode_Insert(TRUE)) IN
       /\ state' = out.state
       /\ last' = InputStep("process_insert", key_code.code, out.panic, FALSE)
    /\ steps' = steps + 1
    /\ UNCHANGED <<bridge, handlers, plugins>>

\* process_command
KeyCommand(key_code) ==
    /\ steps < MaxKeys /\ ~last.panic
    /\ state.mode = "Command"
    /\ key_code.code = "Char" /\ key_code.ch # "\n"
          => Len(state.command_buf) < MaxCommandLen
    /\ LET run == process_command(state, key_code) IN
       /\ state' = run.state
       /\ last' = [InputStep("process_command", key_code.code,
                              run.result = "panic", FALSE)
                       EXCEPT !.action = CommandMap_get(
                           EditorState_process_command(state, key_code).command)]
    /\ steps' = steps + 1
    /\ UNCHANGED <<bridge, handlers, plugins>>

\* one frame of the render task
Render(height) ==
    /\ steps < MaxKeys /\ ~last.panic
    /\ state' = render(state, height)
    /\ last' = InputStep("render", "", FALSE, FALSE)
    /\ steps' = steps + 1
    /\ UNCHANGED <<bridge, handlers, plugins>>

InputNext ==
    \/ \E action \in NormalActions : KeyNormal(action)
    \/ \E key_code \in KeyCodes : KeyInsert(key_code)
    \/ \E key_code \in KeyCodes : KeyCommand(key_code)
    \/ \E height \in 1..ViewHeight : Render(height)

SpecInput == InputInit /\ [][InputNext]_vars

(***************************************************************************)
(* The key sequences of Normal and Visual mode: InputManager                *)
(* (crates/editor/src/ui/input.rs).  state is the InputManager with the     *)
(* clock read by Local::now(); last is the event read last, the action      *)
(* returned for it, the key buffer before it and the time of the key        *)
(* appended before it.                                                      *)
(***************************************************************************)
MaxReads == 3

\* the bound of `duration.num_milliseconds() > 500`
KeyTimeoutMs == 500

\* the keys drawn: keys that are bound alone, keys that start or end a bound
\* sequence, a key that is in no sequence
Keys == {"h", "g", " ", "w", "z"}

\* milliseconds from one read to the next
Delays == {0, KeyTimeoutMs, KeyTimeoutMs + 1}

\* Keymap::default, the bindings over Keys
KeymapBindings ==
    {<< <<"h">>, "MoveLeft" >>,
     << <<"g", "g">>, "MoveToStartOfBuffer" >>,
     << <<" ", "w">>, "Save" >>}

\* Keymap::get
Keymap_get(key) ==
    IF \E b \in KeymapBindings : b[1] = key
    THEN Some((CHOOSE b \in KeymapBindings : b[1] = key)[2])
    ELSE None

\* the timeout test that never fires
timed_out_never(now, last_time) == FALSE

\* `now - last_time` is more than 500 ms
timed_out(now, last_time) ==
    last_time.some /\ now - last_time.val > KeyTimeoutMs

\* InputManager::read_event_normal with the event read (None for an event
\* that is no key) at the time now: the InputManager it leaves and the
\* action it returns
read_event_normal(im, key, now) ==
    LET cleared == IF timed_out(now, im.last_time)
                   THEN [im EXCEPT !.key_buffers = <<>>, !.last_time = None]
                   ELSE im
    IN  IF ~key.some
        THEN [manager |-> cleared, action |-> None]
        ELSE LET pushed == [cleared EXCEPT
                               !.key_buffers = Append(@, key.val),
                               !.last_time = Some(now)]
             IN  IF Keymap_get(pushed.key_buffers).some
                 THEN [manager |-> [pushed EXCEPT !.key_buffers = <<>>,
                                                  !.last_time = None],
                       action |-> Keymap_get(pushed.key_buffers)]
                 ELSE [manager |-> pushed, action |-> None]

\* InputManager::default
InputManager_default == [key_buffers |-> <<>>, last_time |-> None]

KeysInit ==
    /\ state = [manager |-> InputManager_default, now |-> 0]
    /\ last = [op |-> "init", key |-> None, action |-> None,
               before |-> <<>>, key_time |-> None]
    /\ steps = 0
    /\ bridge = Bridge_default
    /\ handlers = Handlers_default
    /\ plugins = Plugins_default

\* one event read in Normal or Visual mode, delay ms after the one before
ReadEventNormal(key, delay) ==
    /\ steps < MaxReads
    /\ LET now == state.now + delay
           r == read_event_normal(state.manager, key, now)
       IN  /\ state' = [manager |-> r.manager, now |-> now]
           /\ last' = [op |-> "read_event_normal", key |-> key,
                       action |-> r.action,
                       before |-> state.manager.key_buffers,
                       key_time |-> IF key.some THEN Some(now) ELSE last.key_time]
    /\ steps' = steps + 1
    /\ UNCHANGED <<bridge, handlers, plugins>>

KeysNext ==
    \E key \in {Some(k) : k \in Keys} \cup {None} :
    \E delay \in Delays : ReadEventNormal(key, delay)

SpecKeys == KeysInit /\ [][KeysNext]_vars

(***************************************************************************)
(* The tasks of EditorApplication::main and of the plugin manager and the   *)
(* tokio mutexes and Notify permits they take.  A task runs one iteration   *)
(* of its loop at a time, an iteration being the sequence of the lock(),    *)
(* guard drop, notify_one() and notified() calls of the code in program     *)
(* order.  state is the owner of every mutex, the permit of every Notify    *)
(* and what is left of each task's iteration; last names the step taken.    *)
(***************************************************************************)
\* the turns of its loop that a task takes in a behaviour
MaxTurns == 1

\* the send_message calls of one builtin action
MaxSends == 1

Tasks == {"input", "render", "drain", "handler", "request_pump", "response_pump"}

Mutexes == {"editor", "builtin", "messages", "response", "state", "window",
            "buffer", "mode", "requests", "responses"}

\* Notify -> the task that calls notify_one() on it
Notifier == [bridge |-> "input", call |-> "drain",
             request_notify |-> "request_pump", response_notify |-> "handler"]

Lock(m) == <<"lock", m>>
Drop(m) == <<"drop", m>>
NotifyOne(n) == <<"notify_one", n>>
Notified(n) == <<"notified", n>>

\* Window::get_cursor_max_x (get_render_cursor is one call of it): the
\* Mode is locked while the Buffer guard is alive
get_cursor_max_x_locks ==
    <<Lock("buffer"), Lock("mode"), Drop("mode"), Drop("buffer")>>

\* Window::move_by
move_by_locks == get_cursor_max_x_locks \o <<Lock("buffer"), Drop("buffer")>>

\* Window::move_to_x
move_to_x_locks == <<Lock("buffer"), Drop("buffer")>> \o get_cursor_max_x_locks

\* EditorState::set_mode; the Editor State guard is the caller's
set_mode_locks(is_append) ==
    (IF is_append
     THEN <<Lock("window")>> \o move_by_locks \o <<Drop("window")>>
     ELSE <<>>)
    \o <<Lock("mode"), Drop("mode")>>

\* EditorApiHandler::process, one program for each shape of arm: ChangeMode
\* keeps the Editor State guard (with Insert(true) it takes every mutex that
\* any ChangeMode takes), a buffer arm drops it in get_buffer (which locks
\* the active window when the request names no buffer), a window arm drops
\* it in get_window and calls a method of the locked Window
process_locks ==
    {<<Lock("state")>> \o set_mode_locks(TRUE) \o <<Drop("state")>>,
     <<Lock("state"), Lock("window"), Drop("window"), Drop("state"),
       Lock("buffer"), Drop("buffer")>>,
     <<Lock("state"), Drop("state"), Lock("window")>> \o move_by_locks
       \o <<Drop("window")>>}

\* BuiltinApiProvider::send_message
send_message_locks ==
    <<Lock("messages"), Drop("messages"), NotifyOne("bridge"),
      Notified("call"), Lock("response"), Drop("response")>>

RECURSIVE Repeat(_, _)
Repeat(calls, n) == IF n = 0 THEN <<>> ELSE calls \o Repeat(calls, n - 1)

\* EditorApplication::run_action: Builtin::on_action under the builtin lock
run_action_locks(sends) ==
    <<Lock("builtin")>>
    \o Repeat(send_message_locks, sends)
    \o <<Drop("builtin")>>

\* EditorApplication::process with the Editor State guard kept over the
\* handling of the key
read_mode_keeps_state == <<Lock("state"), Lock("mode"), Drop("mode")>>

\* EditorApplication::process: the Mode is read under the Editor State lock
\* and both guards are dropped before the key is handled
read_mode == <<Lock("state"), Lock("mode"), Drop("mode"), Drop("state")>>

\* EditorApplication::process_insert: a key that edits the Buffer and moves
\* the cursor, and Esc
process_insert_locks ==
    {<<Lock("state"), Lock("window")>> \o get_cursor_max_x_locks
        \o <<Lock("buffer"), Drop("buffer")>> \o move_to_x_locks
        \o <<Drop("window"), Drop("state")>>,
     <<Lock("state"), Lock("window")>> \o get_cursor_max_x_locks
        \o set_mode_locks(FALSE) \o <<Drop("window"), Drop("state")>>}

\* EditorApplication::process_command, Enter on a command
process_command_locks ==
    {<<Lock("state")>> \o set_mode_locks(FALSE) \o <<Drop("state")>>
        \o run_action_locks(1)}

\* one turn of the event loop of main
InputPrograms ==
    {<<Lock("editor")>> \o read_mode \o handling \o <<Drop("editor")>> :
        handling \in {run_action_locks(sends) : sends \in 1..MaxSends}
                     \cup process_insert_locks \cup process_command_locks}

\* Renderer::render
render_locks ==
    <<Lock("window")>> \o get_cursor_max_x_locks
    \o <<Lock("mode"), Drop("mode"), Lock("buffer"), Drop("buffer"), Drop("window")>>

\* one turn of the render task of main
RenderPrograms ==
    {<<Lock("editor"), Lock("state"), Lock("window"), Drop("window")>>
     \o render_locks \o <<Drop("state"), Drop("editor")>>}

\* one turn of the builtin drain task, for one message
DrainPrograms ==
    {<<Notified("bridge"), Lock("messages"), Drop("messages")>> \o process
     \o <<Lock("response"), Drop("response"), NotifyOne("call")>> :
        process \in process_locks}

\* one turn of a plugin handler task, for one request
HandlerPrograms ==
    {<<Notified("request_notify"), Lock("requests"), Lock("responses")>>
     \o process
     \o <<NotifyOne("response_notify"), Drop("responses"), Drop("requests")>> :
        process \in process_locks}

\* Plugin::process_request and Plugin::process_response
RequestPumpPrograms ==
    {<<Lock("requests"), NotifyOne("request_notify"), Drop("requests")>>}

ResponsePumpPrograms ==
    {<<Notified("response_notify"), Lock("responses"), Drop("responses")>>}

Programs(t) ==
    CASE t = "input" -> InputPrograms
      [] t = "render" -> RenderPrograms
      [] t = "drain" -> DrainPrograms
      [] t = "handler" -> HandlerPrograms
      [] t = "request_pump" -> RequestPumpPrograms
      [] t = "response_pump" -> ResponsePumpPrograms

\* the call a task is at
At(st, t) == IF st.program[t] = <<>> THEN <<"idle", "">> ELSE Head(st.program[t])

\* the task cannot take its call now
Blocked(st, t) ==
    \/ At(st, t)[1] = "lock" /\ st.owner[At(st, t)[2]] # "free"
    \/ At(st, t)[1] = "notified" /\ ~st.permit[At(st, t)[2]]

\* the task it waits for: the owner of the mutex, the notifier of the Notify
WaitsFor(st, t) ==
    IF At(st, t)[1] = "lock" THEN st.owner[At(st, t)[2]]
    ELSE Notifier[At(st, t)[2]]

TasksInit ==
    /\ state = [owner |-> [m \in Mutexes |-> "free"],
                permit |-> [n \in DOMAIN Notifier |-> FALSE],
                program |-> [t \in Tasks |-> <<>>],
                turns |-> [t \in Tasks |-> 0]]
    /\ last = [op |-> "init", task |-> ""]
    /\ steps = 0
    /\ bridge = Bridge_default
    /\ handlers = Handlers_default
    /\ plugins = Plugins_default

\* a task comes round its loop
Iterate(t, program) ==
    /\ state.turns[t] < MaxTurns
    /\ state.program[t] = <<>>
    /\ state' = [state EXCEPT !.program[t] = program, !.turns[t] = @ + 1]
    /\ last' = [op |-> "iterate", task |-> t]
    /\ steps' = steps + 1
    /\ UNCHANGED <<bridge, handlers, plugins>>

\* Mutex::lock returns
Acquire(t) ==
    /\ At(state, t)[1] = "lock"
    /\ state.owner[At(state, t)[2]] = "free"
    /\ state' = [state EXCEPT !.owner[At(state, t)[2]] = t,
                              !.program[t] = Tail(@)]
    /\ last' = [op |-> "lock", task |-> t]
    /\ UNCHANGED <<steps, bridge, handlers, plugins>>

\* a guard is dropped
Release(t) ==
    /\ At(state, t)[1] = "drop"
    /\ state' = [state EXCEPT !.owner[At(state, t)[2]] = "free",
                              !.program[t] = Tail(@)]
    /\ last' = [op |-> "drop", task |-> t]
    /\ UNCHANGED <<steps, bridge, handlers, plugins>>

\* Notify::notify_one stores the permit
Signal(t) ==
    /\ At(state, t)[1] = "notify_one"
    /\ state' = [state EXCEPT !.permit[At(state, t)[2]] = TRUE,
                              !.program[t] = Tail(@)]
    /\ last' = [op |-> "notify_one", task |-> t]
    /\ UNCHANGED <<steps, bridge, handlers, plugins>>

\* Notify::notified returns, the permit taken
Wake(t) ==
    /\ At(state, t)[1] = "notified"
    /\ state.permit[At(state, t)[2]]
    /\ state' = [state EXCEPT !.permit[At(state, t)[2]] = FALSE,
                              !.program[t] = Tail(@)]
    /\ last' = [op |-> "notified", task |-> t]
    /\ UNCHANGED <<steps, bridge, handlers, plugins>>

TasksNext ==
    \/ \E t \in Tasks : \E program \in Programs(t) : Iterate(t, program)
    \/ \E t \in Tasks : Acquire(t)
    \/ \E t \in Tasks : Release(t)
    \/ \E t \in Tasks : Signal(t)
    \/ \E t \in Tasks : Wake(t)

SpecTasks == TasksInit /\ [][TasksNext]_vars

(***************************************************************************)
(* A builtin action and the plugins.  The drain task dispatches the calls   *)
(* of the running action one by one (each send_message is one message of    *)
(* the queue and one call of process); the handler task of a plugin calls   *)
(* process on the same Editor State whenever a request of its plugin has    *)
(* arrived.  last is the running action, the responses it has received,     *)
(* the content and the cursor at its first call, and whether a plugin       *)
(* request was dispatched between two of its calls.                         *)
(***************************************************************************)
MaxDispatches == 4

\* the actions of Normal and Visual mode that send more than one request
SequenceActions ==
    {BuiltinAction(kind, "Normal", IVec2(0, 0), "Number") :
        kind \in {"RemoveChar", "RemoveLine", "RemoveSelection"}}

\* what a plugin sends meanwhile
PluginEdits ==
    {InsertChar(NoHandle, UVec2(0, 0), "z"), MoveBy(NoHandle, IVec2(1, 0)),
     GetLineCount(NoHandle)}

Idle == [op |-> "init", phase |-> "idle", action |-> "", resps |-> <<>>,
         content |-> <<>>, cursor |-> UVec2(0, 0), interleaved |-> FALSE,
         panic |-> FALSE]

ActInit ==
    /\ \E content \in {ShapeContent(shape) : shape \in Shapes} :
       \E cursor \in Positions(content), anchor \in Positions(content) :
       \E mode \in {"Normal", "Visual"} :
          LET new == EditorState_new(<<Buffer_open(content, "ok")>>, ViewHeight) IN
          state = [new EXCEPT !.mode = mode,
                              !.windows[0].cursor = cursor,
                              !.windows[0].visual_start =
                                  IF mode = "Visual" THEN anchor ELSE cursor]
    /\ last = Idle
    /\ steps = 0
    /\ bridge = Bridge_default
    /\ handlers = Handlers_default
    /\ plugins = Plugins_default

\* the drain task: handler.process on the next call of the action that the
\* input loop runs (its first call when no action is running)
DrainDispatch(action) ==
    /\ steps < MaxDispatches
    /\ ~last.panic
    /\ state.mode \in {"Normal", "Visual"}
    /\ IF last.phase = "running" THEN action.kind = last.action
       ELSE action.kind = "RemoveSelection" <=> state.mode = "Visual"
    /\ LET first == last.phase # "running"
           resps == IF first THEN <<>> ELSE last.resps
           call == on_action(action, resps)
           out == Process(state, call.req)
           next == on_action(action, Append(resps, out.response))
       IN  /\ call.tag = "send"
           /\ state' = out.state
           /\ last' = [op |-> "drain",
                       phase |-> IF out.panic \/ next.tag # "send"
                                 THEN "done" ELSE "running",
                       action |-> action.kind,
                       resps |-> Append(resps, out.response),
                       content |-> IF first THEN state.buffers[0].content
                                   ELSE last.content,
                       cursor |-> IF first THEN EffectiveCursor(state)
                                  ELSE last.cursor,
                       interleaved |-> IF first THEN FALSE ELSE last.interleaved,
                       panic |-> out.panic]
    /\ steps' = steps + 1
    /\ UNCHANGED <<bridge, handlers, plugins>>

\* the handler task of a plugin: handler.process on a request of the plugin
HandlerDispatch(req) ==
    /\ steps < MaxDispatches
    /\ ~last.panic
    /\ LET out == Process(state, req) IN
       /\ ~out.panic
       /\ state' = out.state
       /\ last' = IF last.phase = "running"
                  THEN [last EXCEPT !.op = "handler", !.interleaved = TRUE]
                  ELSE [Idle EXCEPT !.op = "handler"]
    /\ steps' = steps + 1
    /\ UNCHANGED <<bridge, handlers, plugins>>

ActNext ==
    \/ \E action \in SequenceActions : DrainDispatch(action)
    \/ \E req \in PluginEdits : HandlerDispatch(req)

SpecAct == ActInit /\ [][ActNext]_vars

(***************************************************************************)
(* The event loop and a plugin.  EditorApplication::process reads the Mode  *)
(* under the Editor State lock, drops the lock, and calls the handler of    *)
(* the Mode read, which locks the Editor State again; the handler task of   *)
(* a plugin may lock it in between.  last is the Mode read and not yet      *)
(* acted on, and for the key handled last the Mode read, the Mode at its    *)
(* handling and the cursor before it.                                       *)
(***************************************************************************)
MaxEvents == 3

EventIdle(op) ==
    [op |-> op, pc |-> "idle", read |-> "Normal", key |-> "",
     applied |-> "Normal", before |-> UVec2(0, 0), panic |-> FALSE]

EventInit ==
    /\ \E content \in {ShapeContent(shape) : shape \in Shapes} :
       \E cursor \in Positions(content) :
          state = [EditorState_new(<<Buffer_open(content, "ok")>>, ViewHeight)
                      EXCEPT !.windows[0].cursor = cursor]
    /\ last = EventIdle("init")
    /\ steps = 0
    /\ bridge = Bridge_default
    /\ handlers = Handlers_default
    /\ plugins = Plugins_default

\* EditorApplication::process, the block that reads the Mode
ReadMode ==
    /\ steps < MaxEvents
    /\ ~last.panic
    /\ last.pc = "idle"
    /\ last' = [EventIdle("read") EXCEPT !.pc = "read", !.read = state.mode]
    /\ steps' = steps + 1
    /\ UNCHANGED <<state, bridge, handlers, plugins>>

\* what the key handled did
Handled(op, key, panic) ==
    [op |-> op, pc |-> "idle", read |-> last.read, key |-> key,
     applied |-> state.mode, before |-> state.windows[0].cursor, panic |-> panic]

\* EditorApplication::process, the match on the Mode read: process_insert
HandleInsert(key_code) ==
    /\ last.pc = "read"
    /\ IsInsert(last.read)
    /\ LET out == process_insert(state, key_code, last.read = Mode_Insert(TRUE)) IN
       /\ state' = out.state
       /\ last' = Handled("process_insert", key_code.code, out.panic)
    /\ UNCHANGED <<steps, bridge, handlers, plugins>>

\* process_normal, process_visual
HandleNormal(action) ==
    /\ last.pc = "read"
    /\ last.read \in {"Normal", "Visual"}
    /\ LET run == RunAction(state, action, <<>>) IN
       /\ state' = run.state
       /\ last' = Handled("run_action", action.kind, run.result = "panic")
    /\ UNCHANGED <<steps, bridge, handlers, plugins>>

\* process_command
HandleCommand(key_code) ==
    /\ last.pc = "read"
    /\ last.read = "Command"
    /\ key_code.code = "Char" /\ key_code.ch # "\n"
          => Len(state.command_buf) < MaxCommandLen
    /\ LET run == process_command(state, key_code) IN
       /\ state' = run.state
       /\ last' = Handled("process_command", key_code.code, run.result = "panic")
    /\ UNCHANGED <<steps, bridge, handlers, plugins>>

\* the handler task of a plugin: handler.process(ChangeMode(mode))
PluginChangeMode(mode) ==
    /\ steps < MaxEvents
    /\ ~last.panic
    /\ LET out == Process(state, ChangeMode(mode)) IN
       /\ state' = out.state
       /\ last' = IF last.pc = "read" THEN [last EXCEPT !.op = "ChangeMode"]
                  ELSE EventIdle("ChangeMode")
    /\ steps' = steps + 1
    /\ UNCHANGED <<bridge, handlers, plugins>>

EventNext ==
    \/ ReadMode
    \/ \E key_code \in KeyCodes : HandleInsert(key_code)
    \/ \E action \in NormalActions : HandleNormal(action)
    \/ \E key_code \in KeyCodes : HandleCommand(key_code)
    \/ \E mode \in Modes : PluginChangeMode(mode)

SpecEvent == EventInit /\ [][EventNext]_vars

(***************************************************************************)
(* C9: a request that names a Buffer or Window handle that is not in the   *)
(* registry, or that omits the handle when there is no active window, gets *)
(* the absent response and leaves the whole Editor State (every Buffer,    *)
(* every Window, the Mode, the command-line text) as it was, without       *)
(* unwinding; and the dispatch that was just made did so.                  *)
(***************************************************************************)
C9_MissingHandleAbsentUnchanged ==
    /\ \A req \in Requests :
          MissingHandle(state, req) =>
             Process(state, req) = Outcome(state, NoResponse, FALSE)
    /\ (last.op = "Dispatch" /\ last.missing) =>
          (last.response = NoResponse /\ last.unchanged /\ ~last.panic)

\* a RemoveChar was dispatched with no handle after the active window had
\* been closed, and a buffer request named a handle outside the registry
C9_Witness ==
    /\ last.op = "Dispatch" /\ last.missing /\ last.kind = "RemoveChar"
    /\ DOMAIN state.windows = {}
    /\ MissingHandle(state, RemoveLine(Handle(1), 0))

(***************************************************************************)
(* C1: whatever the number of builtin calls queued at the same time, each  *)
(* send_message returns the result the dispatcher produced for its own     *)
(* request: a Ticket's wake signal is fired only once its own request was  *)
(* dispatched and its own result is in its cell, no cell is written before *)
(* its request is dispatched, and the value returned is that result, never *)
(* the placeholder of a request not yet dispatched.                        *)
(***************************************************************************)
C1_OwnResultOnly ==
    \A t \in 1..Len(bridge.tickets) :
        LET k == bridge.tickets[t] IN
        /\ ~k.dispatched => (k.cell = NoResponse /\ ~k.permit /\ ~k.returned)
        /\ k.dispatched => k.cell = k.result
        /\ k.returned => k.value = k.result

\* two calls taken by the drain loop in one batch have both returned, with
\* different results
C1_Witness ==
    \E t1, t2 \in 1..Len(bridge.tickets) :
        /\ t1 < t2
        /\ bridge.tickets[t1].returned /\ bridge.tickets[t2].returned
        /\ bridge.tickets[t1].batch = bridge.tickets[t2].batch
        /\ bridge.tickets[t1].value # bridge.tickets[t2].value
        /\ bridge.tickets[t2].value # NoResponse

(***************************************************************************)
(* C3: under fair scheduling of the drain loop and of the callers, every   *)
(* send_message call that has pushed its request eventually returns.       *)
(***************************************************************************)
C3_EveryPushedCallReturns ==
    \A t \in 1..MaxCalls :
        (t <= Len(bridge.tickets)) ~>
            (t <= Len(bridge.tickets) /\ bridge.tickets[t].returned)

(***************************************************************************)
(* C2: while process executes a request the Editor State mutex is held     *)
(* from the start of the request until its last read or write of a Buffer  *)
(* or Window, so that two sources are never both inside a request.         *)
(***************************************************************************)
C2_StateMutexHeldThroughRequest ==
    /\ \A h \in Sources :
          handlers.task[h].pc \in {"match", "lock_target", "apply", "commit"}
             => handlers.state_mutex = h
    /\ \A h1, h2 \in Sources :
          (/\ handlers.task[h1].pc \in {"match", "lock_target", "apply", "commit"}
           /\ handlers.task[h2].pc \in {"match", "lock_target", "apply", "commit"})
             => h1 = h2

(***************************************************************************)
(* C4: each request line read from a plugin is dispatched exactly once:    *)
(* no request is dispatched twice, and once the handler task is back at    *)
(* its await the requests it dispatched are no longer in the request queue.*)
(***************************************************************************)
C4_DispatchedExactlyOnce ==
    \A p \in Plugins : \A i \in 1..Len(plugins[p].requests) :
        /\ plugins[p].dispatched[i] <= 1
        /\ plugins[p].handler.pc = "notified" => plugins[p].dispatched[i] = 0

(***************************************************************************)
(* C5: the response queue of a plugin holds, for the requests received, one *)
(* pair per request id in the order of arrival; a pair's kind is null       *)
(* exactly when the dispatcher returned no result; once the pair of a       *)
(* ChangeMode(m) is in the queue the Mode is m.                             *)
(***************************************************************************)
C5_OnePairPerRequestInOrder ==
    \A p \in Plugins :
        /\ Len(plugins[p].responses) <= Len(plugins[p].requests)
        /\ \A k \in 1..Len(plugins[p].responses) :
              LET request == plugins[p].requests[k]
                  response == plugins[p].responses[k]
              IN  /\ response.id = request.id
                  /\ response.kind = NoResponse <=> request.kind.kind # "GetLineCount"
                  /\ request.kind.kind = "ChangeMode" => state.mode = request.kind.mode

(***************************************************************************)
(* C6: each response on a plugin's response queue is written to the        *)
(* plugin's stdin exactly once: none is written twice, and once the        *)
(* response pump is back at its await what it wrote is no longer in the    *)
(* queue.                                                                  *)
(***************************************************************************)
C6_WrittenExactlyOnce ==
    \A p \in Plugins : \A k \in 1..Len(plugins[p].responses) :
        /\ plugins[p].written[k] <= 1
        /\ plugins[p].response_task.pc = "notified" => plugins[p].written[k] = 0

(***************************************************************************)
(* C7: when a pump loop of a plugin has failed, the child is eventually    *)
(* gone and both pump loops of that plugin have stopped.                   *)
(***************************************************************************)
C7_FailedPumpStopsBoth ==
    \A p \in Plugins :
        (plugins[p].request_task = "stopped" \/ plugins[p].response_task.pc = "stopped")
           ~> (/\ plugins[p].child \in {"killed", "exited"}
               /\ plugins[p].request_task = "stopped"
               /\ plugins[p].response_task.pc = "stopped")

(***************************************************************************)
(* C8: the failure or teardown of one plugin connection leaves every other *)
(* plugin, and the builtin bridge, as they were: a plugin's child is gone, *)
(* a pump of it stopped or its run returned only after a failure of its    *)
(* own, and a step that fails or tears down one plugin changes no other    *)
(* plugin's queues, signals, pumps or handler task and nothing of the      *)
(* bridge.                                                                 *)
(***************************************************************************)
C8_TornDown(pl) ==
    \/ pl.child # "running" \/ pl.run # "select"
    \/ pl.request_task = "stopped" \/ pl.response_task.pc = "stopped"

C8_FailureIsolated ==
    /\ [](\A q \in Plugins : C8_TornDown(plugins[q]) => plugins[q].failed)
    /\ [][\A p \in Plugins :
             (C8_TornDown(plugins'[p]) /\ plugins'[p] # plugins[p])
                => (/\ \A q \in Plugins \ {p} : plugins'[q] = plugins[q]
                    /\ bridge' = bridge)]_vars

\* one plugin's child was killed after a pump of it failed, while the
\* other plugin, untouched, has its request dispatched and its response
\* about to be written
C8_Witness ==
    \E p, q \in Plugins :
        /\ p # q
        /\ plugins[p].child = "killed" /\ plugins[p].request_task = "stopped"
        /\ ~plugins[q].failed
        /\ plugins[q].response_task.pc = "write"

(***************************************************************************)
(* C10: RemoveSelection over a normalized range (left, right) whose ends   *)
(* are on different lines replaces lines left.y..right.y by one line made  *)
(* of the left line's characters before column left.x and the right line's *)
(* characters after column right.x, and leaves every other line as it      *)
(* was; "abcdef", "ghijkl" with anchor (2,0) and cursor (3,1) becomes      *)
(* "abkl".                                                                 *)
(***************************************************************************)
C10_MultiLineSelectionRemoved ==
    (last.op = "on_action" /\ last.action = "RemoveSelection") =>
        LET x == UVec2_lt(last.cursor, last.visual_start)
            left == IF x THEN last.cursor ELSE last.visual_start
            right == IF x THEN last.visual_start ELSE last.cursor
            before == last.content
            after == state.buffers[0].content
        IN  /\ left.y # right.y =>
                 after = SubSeq(before, 1, left.y)
                         \o <<SubSeq(before[left.y + 1], 1, left.x)
                              \o SubSeq(before[right.y + 1], right.x + 2,
                                        Len(before[right.y + 1]))>>
                         \o SubSeq(before, right.y + 2, Len(before))
            /\ (/\ before = <<<<"a", "b", "c", "d", "e", "f">>,
                              <<"g", "h", "i", "j", "k", "l">>>>
                /\ last.visual_start = UVec2(2, 0)
                /\ last.cursor = UVec2(3, 1))
                  => after = << <<"a", "b", "k", "l">> >>

(***************************************************************************)
(* C11: after every RemoveSelection action ends, the Mode is Normal and    *)
(* the cursor of the window is on an existing line of the buffer, at a     *)
(* column no greater than that line's length, whichever end of the         *)
(* selection the anchor was at.                                            *)
(***************************************************************************)
C11_SelectionEndsNormalInRange ==
    (last.op = "on_action" /\ last.action = "RemoveSelection") =>
        LET cursor == state.windows[0].cursor
            content == state.buffers[0].content
        IN  /\ state.mode = "Normal"
            /\ cursor.y < Len(content)
            /\ cursor.x <= Len(content[cursor.y + 1])

(***************************************************************************)
(* C12: remove_char at a position inside the text returns the character at *)
(* that position and removes exactly that character, every other character *)
(* staying in place; at a position outside the text it returns nothing and *)
(* the content is as before.                                               *)
(***************************************************************************)
C12_RemoveCharRemovesOne ==
    last.op = "remove_char" =>
        /\ ~last.panic
        /\ IF last.a < Len(last.before)
           THEN /\ last.ret = Some(last.before[last.a + 1])
                /\ state.content = SubSeq(last.before, 1, last.a)
                                   \o SubSeq(last.before, last.a + 2, Len(last.before))
           ELSE /\ last.ret = None
                /\ state.content = last.before

(***************************************************************************)
(* C13 as stated: after any sequence of move_by, move_to_x, move_to_y,     *)
(* move_to_line_start, move_to_line_end, move_to_buffer_start and          *)
(* move_to_buffer_end calls, the cursor the Window holds is on a line in   *)
(* [0, line_count) at a column no greater than the maximum column for the  *)
(* Mode (the line's length in Insert mode, max(length - 1, 0) otherwise).  *)
(***************************************************************************)
C13_StoredCursorClamped ==
    LET win == state.windows[0]
        max_x == get_cursor_max_x(win, state.buffers[0], state.mode)
    IN  /\ win.cursor.y < get_line_count(state.buffers[0])
        /\ max_x.some /\ win.cursor.x <= max_x.val

(***************************************************************************)
(* C13 amended: after any sequence of those calls the cursor the Window    *)
(* holds is on a line in [0, line_count), and the cursor as every read     *)
(* takes it (get_render_cursor) is on that line at a column no greater     *)
(* than the maximum column for the Mode.                                   *)
(***************************************************************************)
C13_EffectiveCursorClamped ==
    LET win == state.windows[0]
        buf == state.buffers[0]
        cursor == get_render_cursor(win, buf, state.mode)
        line_len == Len(buf.content[cursor.y + 1])
    IN  /\ win.cursor.y < get_line_count(buf)
        /\ cursor.y = win.cursor.y
        /\ cursor.x <= (IF IsInsert(state.mode) THEN line_len
                        ELSE IF line_len >= 1 THEN line_len - 1 ELSE 0)

\* a move has left the stored column beyond the line, on a line below the
\* first, where the cursor as read is clamped
C13_Witness ==
    LET win == state.windows[0] IN
    /\ last.op = "move"
    /\ win.cursor.y > 0
    /\ win.cursor.x > Len(state.buffers[0].content[win.cursor.y + 1])
    /\ get_render_cursor(win, state.buffers[0], state.mode) # win.cursor

(***************************************************************************)
(* C15: immediately after sync_scroll, scroll <= cursor.line < scroll +    *)
(* viewport_height when viewport_height > 0, and scroll = cursor.line when *)
(* viewport_height = 0, whatever the cursor line, the scroll offset and    *)
(* the viewport height were before the call.                               *)
(***************************************************************************)
C15_ScrollFollowsCursor ==
    last.synced =>
        LET win == state.windows[0] IN
        IF win.size.y > 0
        THEN win.scroll <= win.cursor.y /\ win.cursor.y < win.scroll + win.size.y
        ELSE win.scroll = win.cursor.y

\* sync_scroll, called on its own, has scrolled down a viewport of one line
\* or more that the cursor was below
C15_Witness ==
    /\ last.op = "sync_scroll"
    /\ state.windows[0].size.y > 0
    /\ last.before.cursor.y >= last.before.scroll + last.before.size.y
    /\ state.windows[0].scroll > last.before.scroll

(***************************************************************************)
(* C14: in every reachable state, whatever requests were processed, the    *)
(* cursor of every Window, as every read takes it, is on a line in         *)
(* [0, line_count) of the Window's Buffer and at a column in               *)
(* [0, max_column] for the current Mode.                                   *)
(***************************************************************************)
C14_CursorInBuffer ==
    \A w \in DOMAIN state.windows :
        LET buf == BufferOf(state, w)
            cursor == get_render_cursor(state.windows[w], buf, state.mode)
            line_len == Len(buf.content[cursor.y + 1])
        IN  /\ cursor.y < get_line_count(buf)
            /\ cursor.x <= (IF IsInsert(state.mode) THEN line_len
                            ELSE IF line_len >= 1 THEN line_len - 1 ELSE 0)

(***************************************************************************)
(* C16: after any sequence of insert(offset, text), insert_char(offset,    *)
(* ch) and remove(start, end) calls with offsets in range, replayed from   *)
(* an empty Buffer, get_content() is the string the same edits make of an  *)
(* empty reference string.                                                 *)
(***************************************************************************)
C16_ReplayEqualsReference ==
    last.replay => (~last.panic /\ state.content = last.ref)

\* an insert of two characters, another edit, then a remove that took
\* characters out from inside the text
C16_Witness ==
    /\ last.replay
    /\ steps = MaxRopeCalls
    /\ last.op = "remove"
    /\ last.a > 0 /\ last.b > last.a
    /\ Len(state.content) > last.a

(***************************************************************************)
(* C17: vec2_to_index(index_to_vec2(i)) = i for every offset i from 0 to   *)
(* the length of the text, and index_to_vec2(vec2_to_index((x, y))) =      *)
(* (x, y) for every line y < line_count and every column x of line y, from *)
(* 0 to the number of characters the line has before its line break.       *)
(***************************************************************************)
C17_InverseAddressing ==
    LET content == state.content
        line_count == BufferContent_get_line_count(content)
        \* the characters of line y, its line break not counted
        columns(y) == get_line_start(content, y + 1).ret
                      - get_line_start(content, y).ret
                      - (IF y + 1 < line_count THEN 1 ELSE 0)
    IN  /\ \A i \in 0..Len(content) :
              LET vec2 == index_to_vec2(content, i) IN
              ~vec2.panic /\ vec2_to_index(content, vec2.ret) = Result(content, i, FALSE)
        /\ \A y \in 0..(line_count - 1) : \A x \in 0..columns(y) :
              LET index == vec2_to_index(content, UVec2(x, y)) IN
              ~index.panic
              /\ index_to_vec2(content, index.ret) = Result(content, UVec2(x, y), FALSE)
        /\ (last.op = "index_to_vec2" /\ last.a <= Len(content)) =>
              vec2_to_index(content, last.ret) = Result(content, last.a, FALSE)

\* index_to_vec2 was called with the offset of a character that is neither
\* on the first line nor the first of its line
C17_Witness ==
    /\ last.op = "index_to_vec2"
    /\ ~last.panic
    /\ last.a < Len(state.content)
    /\ last.ret.y > 0 /\ last.ret.x > 0

(***************************************************************************)
(* C18: JoinLines(y) with y + 1 < line_count replaces lines y and y + 1 by *)
(* their concatenation, so that there is one line fewer and every other    *)
(* line is as before; with y + 1 >= line_count it returns leaving the      *)
(* content and the dirty flag of the Buffer as they were.                  *)
(***************************************************************************)
C18_JoinLines ==
    /\ (last.op = "Dispatch" /\ last.kind = "JoinLines") => ~last.panic
    /\ \A h \in Handles : \A y \in Lines :
          LET b == get_buffer(state, h) IN
          b.some =>
             LET buf == state.buffers[b.val]
                 out == Process(state, JoinLines(h, y))
                 after == out.state.buffers[b.val]
             IN  /\ ~out.panic
                 /\ IF y + 1 < Len(buf.content)
                    THEN after.content =
                            SubSeq(buf.content, 1, y)
                            \o <<buf.content[y + 1] \o buf.content[y + 2]>>
                            \o SubSeq(buf.content, y + 3, Len(buf.content))
                    ELSE after.content = buf.content /\ after.dirty = buf.dirty

(***************************************************************************)
(* C19: a line or offset query on a Buffer (get_line_length, get_line,     *)
(* get_char) with a line or an offset out of range returns nothing and     *)
(* does not abort.                                                         *)
(***************************************************************************)
C19_OutOfRangeQueryAbsent ==
    LET out_of_range ==
            \/ last.op = "get_char" /\ last.a >= Len(last.before)
            \/ /\ last.op \in {"get_line_length", "get_line"}
               /\ last.a >= BufferContent_get_line_count(last.before)
    IN  out_of_range => (~last.panic /\ last.ret = None)

(***************************************************************************)
(* C20: every operation that changes the text of a Buffer sets its dirty   *)
(* flag: in every reachable state, a Buffer whose dirty flag is false      *)
(* holds the text it held when it was opened or last saved with success.   *)
(***************************************************************************)
C20_CleanMeansSaved ==
    ~state.dirty => state.content = last.saved

(***************************************************************************)
(* C21: save() on a Buffer without a backing file changes neither content  *)
(* nor dirty flag; a save() whose write fails leaves content and dirty     *)
(* flag as they were (a dirty buffer stays dirty); through SaveBuffer the  *)
(* failure gives no response and does not unwind, so that the dispatcher   *)
(* goes on serving requests.                                               *)
(***************************************************************************)
C21_FailedSaveKeepsBuffer ==
    /\ \A id \in DOMAIN state.buffers :
          LET buf == state.buffers[id]
              r == Buffer_save(buf)
          IN  /\ buf.file = "none" => r.buf = buf /\ ~r.panic
              /\ buf.file = "failing" =>
                    /\ r.ret = "Err"
                    /\ r.buf.content = buf.content
                    /\ r.buf.dirty = buf.dirty
                    /\ ~r.panic
    /\ \A h \in Handles :
          LET b == get_buffer(state, h)
              out == Process(state, SaveBuffer(h))
          IN  (b.some /\ state.buffers[b.val].file # "ok") =>
                 /\ out.state = state
                 /\ out.response = NoResponse
                 /\ ~out.panic
    /\ (last.op = "Dispatch" /\ last.kind = "SaveBuffer") =>
          /\ ~last.panic
          /\ last.response = NoResponse
          /\ steps < MaxSteps => ENABLED (\E req \in Requests : Dispatch(req))

\* a SaveBuffer has just been dispatched to a dirty buffer whose backing
\* file rejects writes, and the buffer is still dirty
C21_Witness ==
    /\ last.op = "Dispatch" /\ last.kind = "SaveBuffer"
    /\ ~last.missing /\ last.unchanged
    /\ \E id \in DOMAIN state.buffers :
          state.buffers[id].file = "failing" /\ state.buffers[id].dirty

(***************************************************************************)
(* C22: remove_line(y) with y < line_count returns Some(line y) and        *)
(* removes that line, every later line moving up by one; with              *)
(* y >= line_count it returns None and leaves lines and dirty flag as they *)
(* were.                                                                   *)
(***************************************************************************)
C22_RemoveLine ==
    \A id \in DOMAIN state.buffers : \A y \in Lines \cup {usize_MAX} :
        LET buf == state.buffers[id]
            n == Len(buf.content)
            r == Buffer_remove_line(buf, y)
        IN  /\ ~r.panic
            /\ y < n =>
                  /\ r.ret = Some(buf.content[y + 1])
                  /\ Len(r.buf.content) = n - 1
                  /\ \A i \in 0..(n - 2) :
                        r.buf.content[i + 1] =
                            IF i < y THEN buf.content[i + 1] ELSE buf.content[i + 2]
            /\ y >= n =>
                  /\ r.ret = None
                  /\ r.buf = buf

\* a RemoveLine has just taken out a line that had a later line after it,
\* from a buffer that a rejected remove_line would leave clean
C22_Witness ==
    /\ last.op = "Dispatch" /\ last.kind = "RemoveLine"
    /\ ~last.missing /\ last.response # NoResponse
    /\ \E id \in DOMAIN state.buffers :
          /\ Len(state.buffers[id].content) = 1
          /\ state.buffers[id].content[1] # <<>>
          /\ state.buffers[id].dirty

\* n times insert_line(0, ""), then n times remove_line(0), as
\* tests::test_insert_remove_line does with n = 2
RECURSIVE InsertLines(_, _)
InsertLines(buf, n) ==
    IF n = 0 THEN buf ELSE InsertLines(insert_line(buf, 0, <<>>).buf, n - 1)

RECURSIVE RemoveLines(_, _)
RemoveLines(buf, n) ==
    IF n = 0 THEN buf ELSE RemoveLines(Buffer_remove_line(buf, 0).buf, n - 1)

(***************************************************************************)
(* C23: a newly created default Buffer has no lines: remove_line(0) and    *)
(* remove_line(1) on it return None, and after n lines are inserted and n  *)
(* lines removed again its line count is 0.  The Editor State made without *)
(* files holds exactly such a Buffer before the first step.                *)
(***************************************************************************)
C23_DefaultBufferHasNoLines ==
    /\ get_line_count(Buffer_default) = 0
    /\ Buffer_remove_line(Buffer_default, 0).ret = None
    /\ Buffer_remove_line(Buffer_default, 1).ret = None
    /\ \A n \in 0..MaxLines :
          get_line_count(RemoveLines(InsertLines(Buffer_default, n), n)) = 0
    /\ \A id \in DOMAIN state.buffers :
          (steps = 0 /\ state.buffers[id].file = "none") =>
              /\ state.buffers[id] = Buffer_default
              /\ \A y \in {0, 1} :
                    Process(state, RemoveLine(Handle(id), y)).response = NoResponse
    /\ (steps = 1 /\ last.op = "Dispatch" /\ last.kind = "RemoveLine"
          /\ \E id \in DOMAIN state.buffers : state.buffers[id].file = "none")
       => last.response = NoResponse

(***************************************************************************)
(* C24: for every line y and every column x <= length of line y, a         *)
(* SplitLine(x, y) raises the line count by exactly one, line y then       *)
(* holding the first x characters and line y + 1 the rest, the other lines *)
(* staying as they were, and a following join_lines(y) gives back the      *)
(* lines the buffer had before the split.                                  *)
(***************************************************************************)
C24_SplitThenJoin ==
    [][\A h \in Handles, x \in Columns, y \in Lines :
          LET b == get_buffer(state, h) IN
          (/\ b.some
           /\ y < get_line_count(state.buffers[b.val])
           /\ x <= get_line_length(state.buffers[b.val], y).val
           /\ Dispatch(SplitLine(h, UVec2(x, y))))
          => LET before == state.buffers[b.val].content
                 after == state'.buffers[b.val].content
                 line == before[y + 1]
                 joined == join_lines(state'.buffers[b.val], y)
             IN  /\ ~last'.panic
                 /\ Len(after) = Len(before) + 1
                 /\ after[y + 1] = SubSeq(line, 1, x)
                 /\ after[y + 2] = SubSeq(line, x + 1, Len(line))
                 /\ \A i \in 1..Len(before) :
                       i # y + 1 => after[IF i <= y THEN i ELSE i + 1] = before[i]
                 /\ ~joined.panic
                 /\ joined.buf.content = before
                 /\ get_line_count(joined.buf) = Len(before)
      ]_vars

(***************************************************************************)
(* C25: every change of the Editor State (a Buffer's text, a Window's      *)
(* cursor, scroll offset or viewport, the Mode, the command-line text) is  *)
(* made inside a dispatcher call; a step of the input loop outside the     *)
(* dispatcher, or of the renderer, leaves the Editor State as it was.      *)
(***************************************************************************)
C25_OnlyDispatcherWrites ==
    [][ (\/ \E id \in DOMAIN state.buffers :
              state'.buffers[id].content # state.buffers[id].content
         \/ \E id \in DOMAIN state.windows :
              \/ state'.windows[id].cursor # state.windows[id].cursor
              \/ state'.windows[id].scroll # state.windows[id].scroll
              \/ state'.windows[id].size # state.windows[id].size
         \/ state'.mode # state.mode
         \/ state'.command_buf # state.command_buf)
        => last'.op = "Dispatch" ]_vars

(***************************************************************************)
(* C26: every request pushed onto the builtin queue is dispatched exactly  *)
(* once and in push order: the dispatches made so far are those of the     *)
(* first Tickets pushed, each once, in the order of the pushes; a pushed   *)
(* Ticket not yet dispatched is still in the queue or in the batch the     *)
(* drain loop took; and, the drain loop and the callers being scheduled    *)
(* fairly, every pushed request is eventually dispatched.                  *)
(***************************************************************************)
C26_DispatchedOnceInPushOrder ==
    /\ [](\A i \in 1..Len(bridge.order) : bridge.order[i] = i)
    /\ [](\A t \in 1..Len(bridge.tickets) :
             \/ \E i \in 1..Len(bridge.order) : bridge.order[i] = t
             \/ \E i \in 1..Len(bridge.messages) : bridge.messages[i] = t
             \/ \E i \in 1..Len(bridge.drain.batch) : bridge.drain.batch[i] = t)
    /\ \A t \in 1..MaxCalls :
          (t <= Len(bridge.tickets)) ~>
              (\E i \in 1..Len(bridge.order) : bridge.order[i] = t)

(***************************************************************************)
(* C27: the effective cursor (get_render_cursor) is the stored cursor with *)
(* its column clamped to the maximum column of the cursor's line, the      *)
(* line's length in Insert mode and max(length - 1, 0) in the other modes; *)
(* computing it changes neither the stored cursor nor the scroll offset,   *)
(* and a cursor query through the protocol answers this clamped position.  *)
(***************************************************************************)
C27_EffectiveCursorClamped ==
    \A w \in DOMAIN state.windows :
        LET win == state.windows[w]
            buf == BufferOf(state, w)
            len == Len(buf.content[win.cursor.y + 1])
            max_x == IF IsInsert(state.mode) THEN len
                     ELSE IF len >= 1 THEN len - 1 ELSE 0
            clamped == UVec2(IF win.cursor.x > max_x THEN max_x ELSE win.cursor.x,
                             win.cursor.y)
            out == Process(state, GetPosition(Handle(w)))
        IN  win.cursor.y < Len(buf.content) =>
               /\ get_render_cursor(win, buf, state.mode) = clamped
               /\ out.response = Resp_Vec2("GetCursor", clamped)
               /\ out.state = state
               /\ ~out.panic

\* a move has left the stored column beyond the last character of a
\* non-empty line while the Mode is not Insert, so that the effective cursor
\* differs from the stored one
C27_Witness ==
    /\ last.op = "move"
    /\ ~IsInsert(state.mode)
    /\ LET win == state.windows[0]
           buf == BufferOf(state, 0)
       IN  /\ win.cursor.y < Len(buf.content)
           /\ Len(buf.content[win.cursor.y + 1]) >= 1
           /\ win.cursor.x > Len(buf.content[win.cursor.y + 1])
           /\ get_render_cursor(win, buf, state.mode) # win.cursor

\* move_by(offset) would leave the lines of the buffer
LineOutside(win, buf, offset) ==
    \/ win.cursor.y + offset.y < 0
    \/ win.cursor.y + offset.y >= get_line_count(buf)

(***************************************************************************)
(* C28, as stated: a move_by(dx, dy) whose resulting line is outside       *)
(* [0, line_count) leaves the stored cursor, column and line, and the      *)
(* scroll offset as they were, also when dx is not 0.                      *)
(***************************************************************************)
C28_RejectedMoveKeepsStoredCursor ==
    /\ \A offset \in Offsets :
          LET win == state.windows[0]
              buf == BufferOf(state, 0)
              after == Window_move_by(win, buf, state.mode, offset)
          IN  LineOutside(win, buf, offset) =>
                 /\ after.cursor = win.cursor
                 /\ after.scroll = win.scroll
    /\ (/\ last.op = "move" /\ last.req.kind = "MoveBy"
        /\ LineOutside(last.before, BufferOf(state, 0), last.req.pos))
       => /\ state.windows[0].cursor = last.before.cursor
          /\ state.windows[0].scroll = last.before.scroll

(***************************************************************************)
(* C28, amended: such a move_by leaves the stored line, the scroll offset  *)
(* and the effective cursor as they were; the stored column is as it was   *)
(* when dx = 0, and when dx is not 0 it is as it was or, having been       *)
(* beyond the maximum column of the line, is that maximum column.          *)
(***************************************************************************)
C28_RejectedMoveKeepsEffectiveCursor ==
    /\ \A offset \in Offsets :
          LET win == state.windows[0]
              buf == BufferOf(state, 0)
              max_x == get_cursor_max_x(win, buf, state.mode)
              after == Window_move_by(win, buf, state.mode, offset)
          IN  LineOutside(win, buf, offset) =>
                 /\ after.cursor.y = win.cursor.y
                 /\ after.scroll = win.scroll
                 /\ after.size = win.size
                 /\ get_render_cursor(after, buf, state.mode)
                       = get_render_cursor(win, buf, state.mode)
                 /\ offset.x = 0 => after.cursor.x = win.cursor.x
                 /\ after.cursor.x # win.cursor.x =>
                       /\ max_x.some
                       /\ win.cursor.x > max_x.val
                       /\ after.cursor.x = max_x.val
    /\ (/\ last.op = "move" /\ last.req.kind = "MoveBy"
        /\ LineOutside(last.before, BufferOf(state, 0), last.req.pos))
       => /\ state.windows[0].cursor.y = last.before.cursor.y
          /\ state.windows[0].scroll = last.before.scroll
          /\ get_render_cursor(state.windows[0], BufferOf(state, 0), state.mode)
                = get_render_cursor(last.before, BufferOf(state, 0), state.mode)
          /\ last.req.pos.x = 0 => state.windows[0].cursor = last.before.cursor

\* a MoveBy with dx # 0 towards a line outside the buffer has been rejected
\* and the stored column, which was beyond the line's maximum column, is
\* now that maximum column
C28_Witness ==
    /\ last.op = "move" /\ last.req.kind = "MoveBy"
    /\ last.req.pos.x # 0
    /\ LineOutside(last.before, BufferOf(state, 0), last.req.pos)
    /\ state.windows[0].cursor.x # last.before.cursor.x
    /\ state.windows[0].cursor.y = last.before.cursor.y

\* the Editor State of SpecSel before a selection is removed
Selecting(content, cursor, anchor) ==
    [EditorState_new(<<Buffer_open(content, "ok")>>, ViewHeight)
        EXCEPT !.mode = "Visual",
               !.windows[0].cursor = cursor,
               !.windows[0].visual_start = anchor]

(***************************************************************************)
(* C29: the content RemoveSelection leaves depends only on the normalized  *)
(* pair (left, right): with anchor and cursor swapped the resulting buffer *)
(* is the same; with both ends on one line only the characters of that     *)
(* line from column left.x to the right end are removed, the right end     *)
(* being taken as in the multi-line case, where the character at column    *)
(* right.x goes too and the line keeps what comes after it.                *)
(***************************************************************************)
C29_SelectionByNormalizedPair ==
    (last.op = "on_action" /\ last.action = "RemoveSelection") =>
        LET x == UVec2_lt(last.cursor, last.visual_start)
            left == IF x THEN last.cursor ELSE last.visual_start
            right == IF x THEN last.visual_start ELSE last.cursor
            before == last.content
            after == state.buffers[0].content
            swapped == RunAction(Selecting(before, last.visual_start, last.cursor),
                                 BuiltinAction("RemoveSelection", "Normal",
                                               UVec2(0, 0), "Number"), <<>>)
            kept == SubSeq(before[right.y + 1], right.x + 2, Len(before[right.y + 1]))
        IN  /\ after = swapped.state.buffers[0].content
            /\ left.y = right.y =>
                  after = [before EXCEPT ![left.y + 1] =
                              SubSeq(@, 1, left.x) \o kept]
            /\ (left.y # right.y /\ last.result = "Ok") =>
                  /\ Len(after) = Len(before) - (right.y - left.y)
                  /\ Len(after[left.y + 1]) >= Len(kept)
                  /\ SubSeq(after[left.y + 1],
                            Len(after[left.y + 1]) - Len(kept) + 1,
                            Len(after[left.y + 1])) = kept

(***************************************************************************)
(* C30: ChangeMode(Insert(true)) puts the stored cursor one column after   *)
(* the effective cursor, and an Esc that follows it immediately leaves the *)
(* Mode Normal and the effective cursor where it was before the            *)
(* ChangeMode, the stored column being one less than after the ChangeMode; *)
(* so on every line, an empty one included, and for a cursor on the last   *)
(* character.                                                              *)
(***************************************************************************)
C30_AppendThenEscRestoresCursor ==
    /\ (last.op = "Dispatch" /\ last.entered) =>
          /\ ~last.panic
          /\ state.mode = Mode_Insert(TRUE)
          /\ state.windows[0].cursor = UVec2(last.before.x + 1, last.before.y)
    /\ (last.op = "process_insert" /\ last.key = "Esc" /\ last.prev_entered) =>
          /\ ~last.panic
          /\ state.mode = "Normal"
          /\ EffectiveCursor(state) = last.prev
          /\ state.windows[0].cursor = last.prev

\* Esc has just followed a ChangeMode(Insert(true)) made with the cursor on
\* the last character of a line
C30_Witness ==
    /\ last.op = "process_insert" /\ last.key = "Esc" /\ last.prev_entered
    /\ LET line == state.buffers[0].content[last.prev.y + 1] IN
       /\ Len(line) >= 2
       /\ last.prev.x = Len(line) - 1
    /\ EffectiveCursor(state) = last.prev

(***************************************************************************)
(* C31: in Insert mode, Backspace with the cursor at column x > 0 removes  *)
(* the character at column x - 1 of the cursor line and leaves the cursor  *)
(* at column x - 1; with the cursor at column 0 of a line y > 0 it joins   *)
(* line y onto the end of line y - 1, the line count going down by one,    *)
(* and leaves the cursor on line y - 1 at the former length of that line.  *)
(***************************************************************************)
C31_BackspaceRemovesOrJoins ==
    [][ KeyInsert(KeyCode("Backspace", "")) =>
          LET cursor == EffectiveCursor(state)
              before == state.buffers[0].content
              after == state'.buffers[0].content
          IN  /\ cursor.x > 0 =>
                    /\ ~last'.panic
                    /\ after = [before EXCEPT ![cursor.y + 1] = RemoveAt(@, cursor.x - 1)]
                    /\ state'.windows[0].cursor = UVec2(cursor.x - 1, cursor.y)
              /\ (cursor.x = 0 /\ cursor.y > 0) =>
                    /\ ~last'.panic
                    /\ Len(after) = Len(before) - 1
                    /\ after = SubSeq(before, 1, cursor.y - 1)
                               \o <<before[cursor.y] \o before[cursor.y + 1]>>
                               \o SubSeq(before, cursor.y + 2, Len(before))
                    /\ state'.windows[0].cursor
                          = UVec2(Len(before[cursor.y]), cursor.y - 1)
      ]_vars

\* C32: in Command mode, Enter ends with Mode Normal and an empty
\* command_buf, and the action it emits is the one the command table binds
\* to the accumulated string ("q" to Quit, "w" to Save), none for any other
\* string.
C32_EnterRunsBoundCommand ==
    [][ KeyCommand(KeyCode("Char", "\n")) =>
          /\ state'.mode = "Normal"
          /\ state'.command_buf = <<>>
          /\ last'.action = CASE state.command_buf = <<"q">> -> "Quit"
                              [] state.command_buf = <<"w">> -> "Save"
                              [] OTHER -> "None"
      ]_vars

\* Enter was pressed on "w" and on a string that is no command
C32_Witness ==
    /\ last.op = "process_command"
    /\ last.action = "Save"
    /\ state.mode = "Normal"
    /\ state.command_buf = <<>>

C32_WitnessMiss ==
    /\ last.op = "process_command"
    /\ last.key = "Char"
    /\ last.action = "None"
    /\ state.mode = "Normal"

C33_WitnessSequence ==
    /\ last.op = "read_event_normal"
    /\ last.before = <<" ">>
    /\ last.action = Some("Save")

\* C34: no request that a plugin can send makes the dispatching task
\* abort: InsertChar, InsertLine and SplitLine with a line or a column
\* beyond the buffer's bounds, and OpenFile, end with a response (possibly
\* the absent one).
C34_NoRequestAborts ==
    (/\ last.op = "Dispatch"
     /\ last.kind \in {"InsertChar", "InsertLine", "SplitLine", "OpenFile"})
        => ~last.panic

\* the same on the handler task of a plugin: the task is never unwound and
\* goes on with the requests that follow
C34_HandlerTaskSurvives ==
    \A p \in Plugins : plugins[p].handler.pc # "panicked"

C36_ActionRequestsAtomic ==
    (last.phase = "done" /\ ~last.panic) =>
        /\ ~last.interleaved
        /\ last.action = "RemoveChar" =>
              state.buffers[0].content =
                  [last.content EXCEPT ![last.cursor.y + 1] =
                      RemoveAt(@, last.cursor.x)]

\* the same when the action is not interleaved
C36_Sequential ==
    (last.phase = "done" /\ ~last.panic /\ ~last.interleaved
        /\ last.action = "RemoveChar") =>
        state.buffers[0].content =
            [last.content EXCEPT ![last.cursor.y + 1] = RemoveAt(@, last.cursor.x)]

\* C37: a key event is handled under the Mode that is current when its
\* effects are applied: the Mode at the handling of a key is the Mode that
\* the input loop read for it, and the cursor moves one column left on Esc
\* only if the Mode is Insert(true) at that moment.
C37_KeyHandledUnderCurrentMode ==
    last.op \in {"process_insert", "run_action", "process_command"} =>
        /\ last.applied = last.read
        /\ (/\ last.key = "Esc"
            /\ ~last.panic
            /\ state.windows[0].cursor.x < last.before.x)
              => last.applied = Mode_Insert(TRUE)

\* the same for a key with no plugin request between the read and the
\* handling
C37_Undisturbed ==
    [][ (last.op = "read" /\ last'.op = "process_insert" /\ last'.key = "Esc"
           /\ state'.windows[0].cursor.x < state.windows[0].cursor.x)
          => state.mode = Mode_Insert(TRUE) ]_vars

\* C38: in Insert mode, Backspace with the cursor at column 0 of line 0
\* leaves the buffer content, the line count and the cursor as they were
\* and does not abort.
C38_BackspaceAtOriginIsNoOp ==
    [][ (KeyInsert(KeyCode("Backspace", "")) /\ EffectiveCursor(state) = UVec2(0, 0)) =>
          /\ ~last'.panic
          /\ state'.buffers[0].content = state.buffers[0].content
          /\ state'.windows[0].cursor = state.windows[0].cursor
      ]_vars

\* C39: in every reachable state in which the Mode is not Command the
\* command-line buffer is empty, under any interleaving of key events with
\* ChangeMode requests issued by builtin actions and by plugins.
C39_CommandBufEmptyOutsideCommand ==
    state.mode # "Command" => state.command_buf = <<>>

\* C40: for every line y < line_count, get_line_length(y) is the number
\* of characters of get_all_lines()[y], the line terminator not being
\* counted, and get_line_count() is the number of elements of
\* get_all_lines(), after any sequence of inserts and removes.
C40_LineLengthMatchesAllLines ==
    LET lines == Buffer_get_all_lines(state.content) IN
    /\ BufferContent_get_line_count(state.content) = Len(lines)
    /\ \A y \in 0..(BufferContent_get_line_count(state.content) - 1) :
          BufferContent_get_line_length(state.content, y).ret = Some(Len(lines[y + 1]))

\* the part that holds: the line count, and the length of the last line
C40_LineCountMatchesAllLines ==
    LET lines == Buffer_get_all_lines(state.content) IN
    /\ BufferContent_get_line_count(state.content) = Len(lines)
    /\ BufferContent_get_line_length(state.content, Len(lines) - 1).ret
          = Some(Len(lines[Len(lines)]))

====
